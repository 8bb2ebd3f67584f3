-------------------------- MODULE PageStackProofs ---------------------------
(***************************************************************************)
(* Proofs about PageStack with a replaceTransition: no order in which pages*)
(* get ready, fail, are popped or replaced and animations end loses a page *)
(* or leaves the stack without the page that is shown, apart from the pages*)
(* that a replace() shows just before it throws.                           *)
(***************************************************************************)
EXTENDS PageStack, SequenceTheorems, FiniteSetTheorems, WellFoundedInduction, TLAPS

Entries == Pages \cup {NULL, UNDEFINED}

----------------------------------------------------------------------------
(***************************************************************************)
(* What the operators of the model do to the entries of a stack.           *)
(***************************************************************************)

\* A set of positions that is not empty has a last one.
LEMMA HasLast ==
    ASSUME NEW n \in Nat, NEW D \in SUBSET (0 .. n), D # {}
    PROVE  \E i \in D : \A j \in D : j <= i
<1> DEFINE Above(i) == i .. n
           Family == {Above(i) : i \in D}
<1>1. Family \subseteq FiniteSubsetsOf(Int) /\ Family # {}
  <2>1. ASSUME NEW i \in D PROVE Above(i) \in FiniteSubsetsOf(Int)
    <3>1. i \in Int /\ n \in Int
      OBVIOUS
    <3>2. IsFiniteSet(i .. n)
      BY <3>1, FS_Interval
    <3>3. i .. n \in SUBSET Int
      BY <3>1
    <3> QED  BY <3>2, <3>3 DEF FiniteSubsetsOf
  <2> QED  BY <2>1
<1>2. IsWellFoundedOn(StrictSubsetOrdering(Int), FiniteSubsetsOf(Int))
  BY FS_StrictSubsetOrderingWellFounded
<1> HIDE DEF Family
<1>3. PICK X \in Family : \A Y \in Family : << Y, X >> \notin StrictSubsetOrdering(Int)
  BY <1>1, <1>2, WFMin
<1>4. PICK i \in D : X = Above(i)
  BY <1>3 DEF Family
<1>5. ASSUME NEW j \in D, j > i PROVE FALSE
  <2>1. Above(j) \subseteq Above(i) /\ i \in Above(i) /\ i \notin Above(j)
    BY <1>5
  <2>2. << Above(j), Above(i) >> \in StrictSubsetOrdering(Int)
    BY <2>1 DEF StrictSubsetOrdering
  <2> QED  BY <1>3, <1>4, <2>2 DEF Family
<1> QED  BY <1>5

\* An assignment to a position of the stack.
LEMMA PutEntry ==
    ASSUME NEW stack \in Seq(Entries), NEW k \in DOMAIN stack, NEW e \in Entries
    PROVE  LET new == [stack EXCEPT ![k] = e]
           IN  /\ new \in Seq(Entries)
               /\ Len(new) = Len(stack) /\ DOMAIN new = DOMAIN stack
               /\ \A i \in DOMAIN stack : new[i] = IF i = k THEN e ELSE stack[i]
<1>1. DOMAIN stack = 1 .. Len(stack)
  BY LenProperties
<1> QED  BY <1>1, ExceptSeq

\* push() of an entry.
LEMMA AddEntry ==
    ASSUME NEW stack \in Seq(Entries), NEW e \in Entries
    PROVE  LET new == Append(stack, e)
               n   == Len(stack)
           IN  /\ new \in Seq(Entries)
               /\ Len(new) = n + 1 /\ DOMAIN new = 1 .. n + 1
               /\ \A i \in 1 .. n : new[i] = stack[i]
               /\ new[n + 1] = e
BY AppendProperties, LenProperties

\* The lower part of a stack.
LEMMA LowerPart ==
    ASSUME NEW stack \in Seq(Entries), NEW m \in 0 .. Len(stack)
    PROVE  LET new == SubSeq(stack, 1, m)
           IN  /\ new \in Seq(Entries)
               /\ Len(new) = m /\ DOMAIN new = 1 .. m
               /\ \A i \in 1 .. m : new[i] = stack[i]
<1>1. Len(stack) \in Nat /\ \A i \in 1 .. m : stack[i] \in Entries
  BY ElementOfSeq, LenProperties
<1>2. /\ SubSeq(stack, 1, m) \in Seq(Entries)
      /\ Len(SubSeq(stack, 1, m)) = m
      /\ \A i \in 1 .. m : SubSeq(stack, 1, m)[i] = stack[i]
  BY <1>1, SubSeqProperties
<1> QED  BY <1>2, LenProperties

\* removeUndefined() drops marks from the top until an entry that is none.
LEMMA TrimmedStack ==
    ASSUME NEW stack \in Seq(Entries)
    PROVE  \E m \in 0 .. Len(stack) :
              /\ WithoutUndefined(stack) = SubSeq(stack, 1, m)
              /\ m # 0 => stack[m] # UNDEFINED
              /\ \A i \in DOMAIN stack : i > m => stack[i] = UNDEFINED
<1> DEFINE defined == {i \in DOMAIN stack : stack[i] # UNDEFINED}
           m == CHOOSE i \in defined \cup {0} : \A j \in defined : j <= i
<1>1. DOMAIN stack = 1 .. Len(stack) /\ Len(stack) \in Nat
  BY LenProperties
<1>2. defined \cup {0} \in SUBSET (0 .. Len(stack))
  BY <1>1
<1>3. \E i \in defined \cup {0} : \A j \in defined : j <= i
  BY <1>1, <1>2, HasLast
<1>4. m \in defined \cup {0} /\ \A j \in defined : j <= m
  BY <1>3
<1>5. WithoutUndefined(stack) = SubSeq(stack, 1, m)
  BY DEF WithoutUndefined
<1> HIDE DEF m
<1> QED  BY <1>1, <1>2, <1>4, <1>5

----------------------------------------------------------------------------
(***************************************************************************)
(* The inductive invariant.                                                *)
(***************************************************************************)
NoneLoads == \A p \in Pages : loading[p] = 0

\* A page that loads has a placeholder of its own, and each placeholder has a page
\* that loads.
Placeholders ==
    /\ \A p \in Pages : loading[p] # 0 =>
          /\ p <= calls /\ p \notin created
          /\ loading[p] \in DOMAIN pageStack /\ pageStack[loading[p]] = NULL
    /\ \A p, q \in Pages : loading[p] # 0 /\ loading[p] = loading[q] => p = q
    /\ \A i \in DOMAIN pageStack :
          pageStack[i] = NULL => \E p \in Pages : loading[p] = i

\* The pages on the stack are there, and each is there once.
StackedPages ==
    /\ \A i \in DOMAIN pageStack :
          pageStack[i] \in Pages => pageStack[i] \in created \ destroyed
    /\ \A i, j \in DOMAIN pageStack :
          pageStack[i] \in Pages /\ pageStack[i] = pageStack[j] => i = j

\* A page is named by its call.
Numbered ==
    /\ Len(pageStack) <= calls
    /\ created \subseteq 1 .. calls
    /\ replacing # NULL => replacing \in (1 .. calls) \ created

\* What moves exists, and what moves out is off the stack.
Moves ==
    \A m \in moving :
        /\ m.page \in created
        /\ m.kind = "pop" => \A i \in DOMAIN pageStack : pageStack[i] # m.page

\* Nothing else happens while a replacement loads; while it moves in it is the current
\* page and not yet on the stack, and exitItem is the page whose place it gets.
Replacement ==
    /\ replacing # NULL =>
          NoneLoads /\ length # 0 /\ \A m \in moving : m.kind # "replace"
    /\ \A m \in moving : m.kind = "replace" =>
          /\ NoneLoads
          /\ length \in DOMAIN pageStack
          /\ exitItem = pageStack[length] /\ exitItem \in Pages
          /\ m.page = currentPage /\ m.page \notin destroyed
          /\ \A i \in DOMAIN pageStack : pageStack[i] # m.page
          /\ [kind |-> "pop", page |-> m.page] \notin moving

\* What a replace() left behind when it threw is there, and nothing else names it.
Stranded ==
    /\ stranded \subseteq created \ destroyed
    /\ \A i \in DOMAIN pageStack : pageStack[i] \notin stranded
    /\ \A m \in moving : m.page \notin stranded

\* Any other page that is neither on the stack nor destroyed is moving in or out, for which
\* the animation of a push does not count.
NoneLeft ==
    \A p \in created \ (destroyed \cup stranded) :
        \/ \E i \in DOMAIN pageStack : pageStack[i] = p
        \/ \E m \in moving : m.kind # "push" /\ m.page = p

ShownIsThere ==
    (\A m \in moving : m.kind # "replace") /\ currentPage # NULL =>
        /\ currentPage \in stranded \/ \E i \in DOMAIN pageStack : pageStack[i] = currentPage
        /\ currentPage \notin destroyed

StackInv == /\ PageTypeOK
            /\ Placeholders /\ StackedPages /\ Numbered /\ Moves
            /\ Replacement /\ Stranded /\ NoneLeft /\ ShownIsThere

\* What the types say of the stack and of the names of pages.
LEMMA TypeFacts ==
    ASSUME PageTypeOK
    PROVE  /\ pageStack \in Seq(Entries)
           /\ Len(pageStack) \in Nat /\ DOMAIN pageStack = 1 .. Len(pageStack)
           /\ \A i \in DOMAIN pageStack : pageStack[i] \in Entries
           /\ calls \in Nat /\ MaxCalls \in Nat /\ calls <= MaxCalls
           /\ \A p \in Pages : p # NULL /\ p # UNDEFINED
           /\ Pages \subseteq Nat
<1>1. pageStack \in Seq(Entries) /\ MaxCalls \in Nat /\ calls \in 0 .. MaxCalls
  BY CallsAssumption DEF PageTypeOK, Entries
<1>2. \A i \in 1 .. Len(pageStack) : pageStack[i] \in Entries
  BY <1>1, ElementOfSeq
<1>3. Len(pageStack) \in Nat /\ DOMAIN pageStack = 1 .. Len(pageStack)
  BY <1>1, LenProperties
<1>4. /\ \A p \in Pages : p # NULL /\ p # UNDEFINED
      /\ Pages \subseteq Nat
  BY <1>1 DEF Pages, NULL, UNDEFINED
<1> QED  BY <1>1, <1>2, <1>3, <1>4

\* Initially the stack is empty.
LEMMA InvInit == Init => StackInv
<1> SUFFICES ASSUME Init PROVE StackInv
  OBVIOUS
<1>1. pageStack = << >> /\ Len(<< >>) = 0 /\ << >> \in Seq(Entries) /\ DOMAIN << >> = {}
  BY EmptySeq DEF Init
<1>2. PageTypeOK
  <2>1. MaxCalls \in Nat /\ 0 \in 0 .. MaxCalls
    BY CallsAssumption
  <2>2. loading \in [Pages -> 0 .. MaxCalls]
    BY <2>1 DEF Init
  <2> QED  BY <1>1, <2>1, <2>2 DEF Init, PageTypeOK, Entries
<1> QED
  BY <1>1, <1>2 DEF Init, StackInv, Placeholders, StackedPages, Numbered, Moves,
     Replacement, Stranded, NoneLeft, ShownIsThere, NoneLoads

----------------------------------------------------------------------------
(***************************************************************************)
(* push()                                                                  *)
(***************************************************************************)

\* A placeholder joins the stack.
LEMMA PushLoadsKeeps == StackInv /\ PushLoads => StackInv'
<1> SUFFICES ASSUME StackInv, PushLoads PROVE StackInv'
  OBVIOUS
<1> DEFINE page == calls + 1
           n == Len(pageStack)
<1>1. PageTypeOK /\ NULL \in Entries
  BY DEF StackInv, Entries
<1>2. /\ pageStack \in Seq(Entries) /\ n \in Nat /\ DOMAIN pageStack = 1 .. n
      /\ calls \in Nat /\ MaxCalls \in Nat /\ page \in Pages
      /\ \A p \in Pages : p # NULL /\ p # UNDEFINED
      /\ Pages \subseteq Nat
  BY <1>1, TypeFacts DEF PushLoads, MayPush, Pages
<1>3. /\ pageStack' \in Seq(Entries)
      /\ Len(pageStack') = n + 1 /\ DOMAIN pageStack' = 1 .. n + 1
      /\ \A i \in 1 .. n : pageStack'[i] = pageStack[i]
      /\ pageStack'[n + 1] = NULL
  BY <1>1, <1>2, AddEntry DEF PushLoads
<1>4. /\ calls' = page /\ calls < MaxCalls
      /\ loading' = [loading EXCEPT ![page] = n + 1]
      /\ UNCHANGED << length, currentPage, exitItem, replacing, moving, busy, created,
                      destroyed, stranded >>
      /\ replacing = NULL /\ \A m \in moving : m.kind # "replace"
  BY <1>3 DEF PushLoads, MayPush, NothingIsReplaced
<1>5. n <= calls /\ created \subseteq 1 .. calls /\ loading \in [Pages -> 0 .. MaxCalls]
  BY DEF StackInv, Numbered, PageTypeOK
<1> HIDE DEF page, n
<1>6. PageTypeOK'
  <2>1. loading' \in [Pages -> 0 .. MaxCalls] /\ calls' \in 0 .. MaxCalls
    BY <1>2, <1>4, <1>5 DEF page
  <2> QED  BY <1>1, <1>3, <1>4, <2>1 DEF PageTypeOK, Entries
<1>7. Placeholders'
  <2>1. \A p \in Pages : loading'[p] = IF p = page THEN n + 1 ELSE loading[p]
    BY <1>2, <1>4, <1>5
  <2>2. page \notin created
    BY <1>2, <1>5 DEF page
  <2>3. \A p \in Pages : loading'[p] # 0 =>
            /\ p <= calls' /\ p \notin created'
            /\ loading'[p] \in DOMAIN pageStack' /\ pageStack'[loading'[p]] = NULL
    BY <1>2, <1>3, <1>4, <2>1, <2>2 DEF StackInv, Placeholders, page
  <2>4. \A p, q \in Pages : loading'[p] # 0 /\ loading'[p] = loading'[q] => p = q
    BY <1>2, <2>1 DEF StackInv, Placeholders
  <2>5. ASSUME NEW i \in DOMAIN pageStack', pageStack'[i] = NULL
        PROVE  \E p \in Pages : loading'[p] = i
    <3>1. CASE i = n + 1
      BY <1>2, <2>1, <3>1
    <3>2. CASE i # n + 1
      <4>1. i \in DOMAIN pageStack /\ pageStack[i] = NULL
        BY <1>2, <1>3, <2>5, <3>2
      <4>2. PICK p \in Pages : loading[p] = i
        BY <4>1 DEF StackInv, Placeholders
      <4>3. p # page
        BY <1>2, <4>1, <4>2 DEF StackInv, Placeholders, page
      <4> QED  BY <2>1, <4>2, <4>3
    <3> QED  BY <3>1, <3>2
  <2> QED  BY <2>3, <2>4, <2>5 DEF Placeholders
<1>8. StackedPages'
  <2>1. \A i \in DOMAIN pageStack' :
            pageStack'[i] \in Pages => i \in DOMAIN pageStack /\ pageStack[i] = pageStack'[i]
    <3> SUFFICES ASSUME NEW i \in DOMAIN pageStack', pageStack'[i] \in Pages
                 PROVE  i \in DOMAIN pageStack /\ pageStack[i] = pageStack'[i]
      OBVIOUS
    <3>1. i \in 1 .. n + 1 /\ i # n + 1
      BY <1>2, <1>3
    <3>2. i \in 1 .. n
      BY <1>2, <3>1
    <3> QED  BY <1>2, <1>3, <3>2
  <2> QED  BY <1>4, <2>1 DEF StackInv, StackedPages
<1>8a. Numbered'
  BY <1>2, <1>3, <1>4, <1>5 DEF Numbered, page
<1>9. Moves' /\ Replacement'
  BY <1>2, <1>3, <1>4 DEF StackInv, Moves, Replacement, PageTypeOK
<1>10. NoneLeft' /\ ShownIsThere'
  BY <1>2, <1>3, <1>4 DEF StackInv, NoneLeft, ShownIsThere
<1>11. Stranded'
  <2>1. NULL \notin stranded
    BY <1>1, <1>2 DEF PageTypeOK
  <2>2. \A i \in 1 .. n + 1 : i = n + 1 \/ i \in 1 .. n
    BY <1>2
  <2> QED  BY <1>2, <1>3, <1>4, <2>1, <2>2 DEF StackInv, Stranded
<1> QED  BY <1>6, <1>7, <1>8, <1>8a, <1>9, <1>10, <1>11 DEF StackInv

\* A page takes its place in the stack.  (`stack' is the stack with the placeholder,
\* and `loads' what loads apart from this page.)
LEMMA ShowKeeps ==
    ASSUME StackInv, NEW page \in Pages, NEW stack \in Seq(Entries), NEW at \in DOMAIN stack,
           Show(page, at, stack),
           page \notin created, page <= calls', calls' \in {calls, calls + 1},
           calls' <= MaxCalls, Len(stack) <= calls',
           stack[at] = NULL,
           \A i \in DOMAIN pageStack : i \in DOMAIN stack /\ stack[i] = pageStack[i],
           \A i \in DOMAIN stack : i # at =>
               i \in DOMAIN pageStack /\ stack[i] = pageStack[i],
           replacing = NULL, \A m \in moving : m.kind # "replace",
           loading' = [loading EXCEPT ![page] = 0],
           \A p \in Pages : p # page => loading[p] # at,
           loading[page] \in {0, at},
           UNCHANGED << replacing, destroyed, stranded >>
    PROVE  StackInv'
<1> DEFINE n == Len(stack)
<1>1. /\ n \in Nat /\ DOMAIN stack = 1 .. n /\ PageTypeOK /\ page \in Entries
      /\ calls \in Nat /\ MaxCalls \in Nat
      /\ \A p \in Pages : p # NULL /\ p # UNDEFINED
      /\ Pages \subseteq Nat
  BY LenProperties, TypeFacts DEF StackInv, Entries
<1>2. /\ pageStack' \in Seq(Entries)
      /\ Len(pageStack') = n /\ DOMAIN pageStack' = DOMAIN stack
      /\ \A i \in DOMAIN stack : pageStack'[i] = IF i = at THEN page ELSE stack[i]
  BY <1>1, PutEntry DEF Show
<1>3. /\ length' = n /\ created' = created \cup {page}
      /\ currentPage' = IF at = n THEN page ELSE currentPage
      /\ exitItem' = IF Top(pageStack') = UNDEFINED THEN exitItem ELSE Top(pageStack')
      /\ moving \subseteq moving'
      /\ moving' \subseteq moving \cup {[kind |-> "push", page |-> page]}
      /\ busy' \in {busy, TRUE}
  BY DEF Show, StartsUnless, Starts
<1>4. \A i \in DOMAIN pageStack' : i # at => i \in DOMAIN pageStack /\ pageStack'[i] = pageStack[i]
  BY <1>2
<1>4a. \A i \in DOMAIN pageStack : i \in DOMAIN pageStack' /\ (i # at => pageStack'[i] = pageStack[i])
  BY <1>2
<1>4b. \A i \in DOMAIN pageStack : i = at => pageStack[i] = NULL
  OBVIOUS
<1>4c. at \in DOMAIN pageStack' /\ pageStack'[at] = page
  BY <1>2
<1>5. \A p \in Pages : loading'[p] = IF p = page THEN 0 ELSE loading[p]
  BY <1>1 DEF PageTypeOK
<1> HIDE DEF n
<1>6. PageTypeOK'
  <2>1. exitItem' \in Pages \cup {NULL}
    <3>1. CASE Top(pageStack') = UNDEFINED
      BY <1>1, <1>3, <3>1 DEF PageTypeOK
    <3>2. CASE Top(pageStack') # UNDEFINED
      <4>1. pageStack' # << >>
        BY <3>2 DEF Top
      <4>2. Len(pageStack') \in DOMAIN pageStack'
        BY <1>1, <1>2
      <4>3. Top(pageStack') \in Entries
        BY <1>2, <4>1, <4>2, ElementOfSeq, LenProperties DEF Top, Last
      <4> QED  BY <1>3, <3>2, <4>3 DEF Entries
    <3> QED  BY <3>1, <3>2
  <2>2. length' \in 0 .. MaxCalls /\ currentPage' \in Pages \cup {NULL}
    BY <1>1, <1>3 DEF PageTypeOK, n
  <2>3. loading' \in [Pages -> 0 .. MaxCalls]
    BY <1>1 DEF PageTypeOK
  <2>4. moving' \subseteq [kind : {"push", "pop", "replace"}, page : Pages]
    BY <1>1, <1>3 DEF PageTypeOK
  <2>5. calls' \in 0 .. MaxCalls
    BY <1>1
  <2>6. busy' \in BOOLEAN /\ created' \subseteq Pages /\ destroyed' \subseteq created'
        /\ stranded' \subseteq created'
    BY <1>1, <1>3 DEF PageTypeOK
  <2> QED  BY <1>1, <1>2, <2>1, <2>2, <2>3, <2>4, <2>5, <2>6 DEF PageTypeOK, Entries
<1>7. Placeholders'
  <2>1. \A p \in Pages : loading'[p] # 0 =>
            /\ p <= calls' /\ p \notin created'
            /\ loading'[p] \in DOMAIN pageStack' /\ pageStack'[loading'[p]] = NULL
    <3> SUFFICES ASSUME NEW p \in Pages, loading'[p] # 0
                 PROVE  /\ p <= calls' /\ p \notin created'
                        /\ loading'[p] \in DOMAIN pageStack' /\ pageStack'[loading'[p]] = NULL
      OBVIOUS
    <3>1. p # page /\ loading'[p] = loading[p] /\ loading[p] # at
      BY <1>5
    <3>2. /\ p <= calls /\ p \notin created
          /\ loading[p] \in DOMAIN pageStack /\ pageStack[loading[p]] = NULL
      BY <3>1 DEF StackInv, Placeholders
    <3>3. p <= calls'
      BY <1>1, <3>2
    <3> QED  BY <1>3, <1>4a, <3>1, <3>2, <3>3
  <2>2. \A p, q \in Pages : loading'[p] # 0 /\ loading'[p] = loading'[q] => p = q
    BY <1>5 DEF StackInv, Placeholders
  <2>3. ASSUME NEW i \in DOMAIN pageStack', pageStack'[i] = NULL
        PROVE  \E p \in Pages : loading'[p] = i
    <3>1. i # at /\ i \in DOMAIN pageStack /\ pageStack[i] = NULL
      BY <1>1, <1>4, <1>4c, <2>3
    <3>2. PICK p \in Pages : loading[p] = i
      BY <3>1 DEF StackInv, Placeholders
    <3>3. i # 0
      BY <1>1, <1>2
    <3>4. p # page
      BY <3>1, <3>2, <3>3
    <3> QED  BY <1>5, <3>2, <3>4
  <2> QED  BY <2>1, <2>2, <2>3 DEF Placeholders
<1>8. StackedPages'
  <2>1. \A i \in DOMAIN pageStack : pageStack[i] # page
    BY DEF StackInv, StackedPages
  <2>2. page \notin destroyed
    BY <1>1 DEF PageTypeOK
  <2> QED  BY <1>3, <1>4, <1>4c, <2>1, <2>2 DEF StackInv, StackedPages
<1>9. Numbered'
  BY <1>1, <1>2, <1>3 DEF StackInv, Numbered, Pages, n
<1>10. Moves' /\ Replacement'
  <2>1. \A m \in moving' : /\ m \in moving \/ m = [kind |-> "push", page |-> page]
                           /\ m.kind # "replace"
    BY <1>3
  <2>2. \A m \in moving : m.page # page
    BY DEF StackInv, Moves
  <2> QED  BY <1>3, <1>4, <1>4c, <2>1, <2>2 DEF StackInv, Moves, Replacement
<1>11. NoneLeft'
  <2> SUFFICES ASSUME NEW p \in created' \ (destroyed' \cup stranded')
               PROVE  \/ \E i \in DOMAIN pageStack' : pageStack'[i] = p
                      \/ \E m \in moving' : m.kind # "push" /\ m.page = p
    BY DEF NoneLeft
  <2>1. CASE p = page
    BY <1>4c, <2>1
  <2>2. CASE p # page
    <3>1. p \in created \ (destroyed \cup stranded) /\ p # NULL
      BY <1>1, <1>3, <2>2 DEF PageTypeOK
    <3>2. CASE \E i \in DOMAIN pageStack : pageStack[i] = p
      BY <1>4a, <1>4b, <3>1, <3>2
    <3>3. CASE \E m \in moving : m.kind # "push" /\ m.page = p
      BY <1>3, <3>3
    <3> QED  BY <3>1, <3>2, <3>3 DEF StackInv, NoneLeft
  <2> QED  BY <2>1, <2>2
<1>12. ShownIsThere'
  <2>1. CASE at = n
    <3>1. page \notin destroyed
      BY <1>1 DEF PageTypeOK
    <3> QED  BY <1>3, <1>4c, <2>1, <3>1 DEF ShownIsThere
  <2>2. CASE at # n
    BY <1>3, <1>4a, <1>4b, <2>2 DEF StackInv, ShownIsThere
  <2> QED  BY <2>1, <2>2
<1>13. Stranded'
  <2>1. page \notin stranded
    BY DEF StackInv, Stranded
  <2>2. \A m \in moving' : m \in moving \/ m = [kind |-> "push", page |-> page]
    BY <1>3
  <2> QED  BY <1>3, <1>4, <1>4c, <2>1, <2>2 DEF StackInv, Stranded
<1> QED  BY <1>6, <1>7, <1>8, <1>9, <1>10, <1>11, <1>12, <1>13 DEF StackInv

\* A page that is there at once.
LEMMA PushIsReadyKeeps == StackInv /\ PushIsReady => StackInv'
<1> SUFFICES ASSUME StackInv, PushIsReady PROVE StackInv'
  OBVIOUS
<1> DEFINE page == calls + 1
           n == Len(pageStack)
           stack == Append(pageStack, NULL)
<1>1. PageTypeOK /\ NULL \in Entries
  BY DEF StackInv, Entries
<1>2. /\ pageStack \in Seq(Entries) /\ n \in Nat /\ DOMAIN pageStack = 1 .. n
      /\ calls \in Nat /\ MaxCalls \in Nat /\ page \in Pages /\ page <= MaxCalls
  BY <1>1, TypeFacts DEF PushIsReady, MayPush, Pages
<1>3. /\ stack \in Seq(Entries) /\ Len(stack) = n + 1 /\ DOMAIN stack = 1 .. n + 1
      /\ \A i \in 1 .. n : stack[i] = pageStack[i]
      /\ stack[n + 1] = NULL
  BY <1>1, <1>2, AddEntry
<1>4. /\ calls' = page /\ Show(page, n + 1, stack)
      /\ UNCHANGED << loading, replacing, destroyed, stranded >>
      /\ replacing = NULL /\ \A m \in moving : m.kind # "replace"
  BY DEF PushIsReady, MayPush, NothingIsReplaced
<1>5. n <= calls /\ page \notin created
  BY <1>2 DEF StackInv, Numbered
<1>6. loading[page] = 0 /\ \A p \in Pages : loading[p] # n + 1
  BY <1>2 DEF StackInv, Placeholders
<1>7. loading' = [loading EXCEPT ![page] = 0]
  BY <1>1, <1>2, <1>4, <1>6 DEF PageTypeOK
<1>8. /\ page <= calls' /\ calls' \in {calls, calls + 1} /\ calls' <= MaxCalls
      /\ Len(stack) <= calls' /\ n + 1 \in DOMAIN stack
      /\ \A i \in DOMAIN pageStack : i \in DOMAIN stack /\ stack[i] = pageStack[i]
      /\ \A i \in DOMAIN stack : i # n + 1 => i \in DOMAIN pageStack /\ stack[i] = pageStack[i]
  <2> HIDE DEF stack
  <2> QED  BY <1>2, <1>3, <1>4, <1>5
<1> HIDE DEF stack, page, n
<1> QED  BY <1>2, <1>3, <1>4, <1>5, <1>6, <1>7, <1>8, ShowKeeps

\* A page that has loaded.
LEMMA PageReadyKeeps == ASSUME StackInv, NEW p \in Pages, PageReady(p) PROVE StackInv'
<1>1. /\ pageStack \in Seq(Entries) /\ Len(pageStack) \in Nat
      /\ calls \in Nat /\ MaxCalls \in Nat /\ calls <= MaxCalls
  BY TypeFacts DEF StackInv
<1>2. /\ p <= calls /\ p \notin created
      /\ loading[p] \in DOMAIN pageStack /\ pageStack[loading[p]] = NULL
      /\ \A q \in Pages : q # p => loading[q] # loading[p]
  BY DEF PageReady, StackInv, Placeholders
<1>3. replacing = NULL /\ \A m \in moving : m.kind # "replace"
  BY DEF PageReady, StackInv, Replacement, NoneLoads
<1>4. Len(pageStack) <= calls
  BY DEF StackInv, Numbered
<1>5. /\ Show(p, loading[p], pageStack) /\ loading' = [loading EXCEPT ![p] = 0]
      /\ UNCHANGED << replacing, destroyed, stranded, calls >>
  BY DEF PageReady
<1> QED  BY <1>1, <1>2, <1>3, <1>4, <1>5, ShowKeeps

\* A page that cannot be loaded leaves the stack, or a mark in it.
LEMMA PageFailsKeeps == ASSUME StackInv, NEW p \in Pages, PageFails(p) PROVE StackInv'
<1> DEFINE n  == Len(pageStack)
           at == loading[p]
<1>1. PageTypeOK /\ UNDEFINED \in Entries
  BY DEF StackInv, Entries
<1>2. /\ pageStack \in Seq(Entries) /\ n \in Nat /\ DOMAIN pageStack = 1 .. n
      /\ \A q \in Pages : q # NULL /\ q # UNDEFINED
      /\ Pages \subseteq Nat /\ calls \in Nat
  BY <1>1, TypeFacts
<1>3. /\ at # 0 /\ pageStack' = WithoutFailed(pageStack, at)
      /\ loading' = [loading EXCEPT ![p] = 0]
      /\ UNCHANGED << length, currentPage, exitItem, replacing, moving, busy, created,
                      destroyed, stranded, calls >>
  BY DEF PageFails
<1>4. /\ at \in DOMAIN pageStack /\ pageStack[at] = NULL
      /\ \A q \in Pages : q # p => loading[q] # at
  BY <1>3 DEF StackInv, Placeholders
<1>5. replacing = NULL /\ \A m \in moving : m.kind # "replace"
  BY <1>3 DEF StackInv, Replacement, NoneLoads
<1>6. \A q \in Pages : loading'[q] = IF q = p THEN 0 ELSE loading[q]
  BY <1>1, <1>3 DEF PageTypeOK
<1>7. /\ pageStack' \in Seq(Entries) /\ DOMAIN pageStack' = 1 .. Len(pageStack')
      /\ Len(pageStack') \in {n, n - 1}
      /\ \A i \in DOMAIN pageStack : i # at => i \in DOMAIN pageStack' /\ pageStack'[i] = pageStack[i]
      /\ \A i \in DOMAIN pageStack' :
             /\ i \in DOMAIN pageStack
             /\ pageStack'[i] = IF i = at THEN UNDEFINED ELSE pageStack[i]
  <2>1. CASE at = n
    <3>1. pageStack' = SubSeq(pageStack, 1, n - 1) /\ n - 1 \in 0 .. Len(pageStack)
      BY <1>2, <1>3, <1>4, <2>1 DEF WithoutFailed, Front
    <3> QED  BY <1>2, <2>1, <3>1, LowerPart
  <2>2. CASE at # n
    <3>1. pageStack' = [pageStack EXCEPT ![at] = UNDEFINED]
      BY <1>3, <2>2 DEF WithoutFailed
    <3> QED  BY <1>1, <1>2, <1>4, <3>1, PutEntry
  <2> QED  BY <2>1, <2>2
<1> HIDE DEF n, at
<1>8. PageTypeOK'
  <2>1. loading' \in [Pages -> 0 .. MaxCalls]
    BY <1>1, <1>3, CallsAssumption DEF PageTypeOK
  <2> QED  BY <1>1, <1>3, <1>7, <2>1 DEF PageTypeOK, Entries
<1>9. Placeholders'
  <2>1. \A q \in Pages : loading'[q] # 0 =>
            /\ q <= calls' /\ q \notin created'
            /\ loading'[q] \in DOMAIN pageStack' /\ pageStack'[loading'[q]] = NULL
    BY <1>3, <1>4, <1>6, <1>7 DEF StackInv, Placeholders
  <2>2. \A q, r \in Pages : loading'[q] # 0 /\ loading'[q] = loading'[r] => q = r
    BY <1>6 DEF StackInv, Placeholders
  <2>3. ASSUME NEW i \in DOMAIN pageStack', pageStack'[i] = NULL
        PROVE  \E q \in Pages : loading'[q] = i
    <3>1. i # at /\ i \in DOMAIN pageStack /\ pageStack[i] = NULL
      BY <1>7, <2>3 DEF NULL, UNDEFINED
    <3>2. PICK q \in Pages : loading[q] = i
      BY <3>1 DEF StackInv, Placeholders
    <3>3. q # p
      BY <3>1, <3>2 DEF at
    <3> QED  BY <1>6, <3>2, <3>3
  <2> QED  BY <2>1, <2>2, <2>3 DEF Placeholders
<1>10. \A i \in DOMAIN pageStack' :
           pageStack'[i] \in Pages => i \in DOMAIN pageStack /\ pageStack'[i] = pageStack[i]
  BY <1>2, <1>7
<1>11. \A q \in Pages, i \in DOMAIN pageStack :
           pageStack[i] = q => i \in DOMAIN pageStack' /\ pageStack'[i] = q
  BY <1>2, <1>4, <1>7
<1>12. StackedPages' /\ Numbered'
  <2>1. StackedPages'
    BY <1>3, <1>10 DEF StackInv, StackedPages
  <2>2. Numbered'
    <3>1. n <= calls
      BY DEF StackInv, Numbered, n
    <3>2. Len(pageStack') \in {n, n - 1} /\ n \in Nat /\ calls \in Nat /\ calls' = calls
      BY <1>2, <1>3, <1>7
    <3>3. Len(pageStack') <= calls'
      <4> HIDE DEF n
      <4> QED  BY <3>1, <3>2
    <3> QED  BY <1>3, <3>3 DEF StackInv, Numbered
  <2> QED  BY <2>1, <2>2
<1>13. Moves' /\ Replacement'
  <2>1. \A m \in moving : m.page \in Pages
    BY <1>1 DEF PageTypeOK
  <2> QED  BY <1>3, <1>5, <1>10, <2>1 DEF StackInv, Moves, Replacement
<1>14. NoneLeft' /\ ShownIsThere'
  <2>1. created \subseteq Pages /\ currentPage \in Pages \cup {NULL}
    BY <1>1 DEF PageTypeOK
  <2> QED  BY <1>3, <1>11, <2>1 DEF StackInv, NoneLeft, ShownIsThere
<1>15. Stranded'
  <2>1. UNDEFINED \notin stranded
    BY <1>1, <1>2 DEF PageTypeOK
  <2> QED  BY <1>3, <1>7, <2>1 DEF StackInv, Stranded
<1> QED  BY <1>8, <1>9, <1>12, <1>13, <1>14, <1>15 DEF StackInv

----------------------------------------------------------------------------
(***************************************************************************)
(* pop()                                                                   *)
(***************************************************************************)

\* pop() leaves a page on top: the marks above it go with the page that is popped.
LEMMA PoppedStack ==
    ASSUME StackInv, Pop
    PROVE  \E m \in 1 .. Len(pageStack) - 1 :
              /\ pageStack' = SubSeq(pageStack, 1, m)
              /\ pageStack[m] \in Pages /\ Top(pageStack') = pageStack[m]
              /\ Last(pageStack) \in Pages \cup {UNDEFINED}
              /\ \A i \in DOMAIN pageStack : i > m /\ i # Len(pageStack) => pageStack[i] = UNDEFINED
<1> DEFINE n == Len(pageStack)
           front == Front(pageStack)
<1>1. PageTypeOK /\ Placeholders
  BY DEF StackInv
<1>2. /\ pageStack \in Seq(Entries) /\ n \in Nat /\ DOMAIN pageStack = 1 .. n
      /\ \A i \in DOMAIN pageStack : pageStack[i] \in Entries
      /\ NULL # UNDEFINED /\ 0 \notin DOMAIN pageStack
  BY <1>1, TypeFacts DEF NULL, UNDEFINED
<1>3. \A i \in DOMAIN pageStack : pageStack[i] # NULL
  BY <1>1, <1>2 DEF Pop, NothingLoads, Placeholders
<1>4. \A i \in DOMAIN pageStack : pageStack[i] # UNDEFINED => pageStack[i] \in Pages
  BY <1>2, <1>3 DEF Entries
<1>5. PICK i, j \in DOMAIN pageStack : i < j /\ pageStack[i] # UNDEFINED /\ pageStack[j] # UNDEFINED
  <2> DEFINE D == {i \in DOMAIN pageStack : pageStack[i] # UNDEFINED}
  <2>1. Cardinality(D) >= 2
    BY DEF Pop, ObjectsNumber
  <2>2. Cardinality({}) = 0 /\ \A x : Cardinality({x}) = 1
    BY FS_EmptySet, FS_Singleton
  <2>3. D # {} /\ \A x : D # {x}
    <3>1. Cardinality(D) # 0 /\ Cardinality(D) # 1
      <4> HIDE DEF D
      <4> QED  BY <2>1
    <3> QED  BY <2>2, <3>1
  <2>4. PICK i \in D, j \in D : i # j
    BY <2>3
  <2> QED  BY <1>2, <2>4
<1>6. n - 1 \in 0 .. Len(pageStack) /\ i \in 1 .. n - 1 /\ n >= 1
  BY <1>2, <1>5
<1>7. /\ front \in Seq(Entries) /\ Len(front) = n - 1 /\ DOMAIN front = 1 .. n - 1
      /\ \A k \in 1 .. n - 1 : front[k] = pageStack[k]
  BY <1>2, <1>6, LowerPart DEF Front
<1>8. PICK m \in 0 .. n - 1 :
          /\ WithoutUndefined(front) = SubSeq(front, 1, m)
          /\ m # 0 => front[m] # UNDEFINED
          /\ \A k \in DOMAIN front : k > m => front[k] = UNDEFINED
  <2> HIDE DEF front
  <2> QED  BY <1>7, TrimmedStack
<1>9. m \in 1 .. n - 1
  <2>1. i \in DOMAIN front /\ front[i] # UNDEFINED
    BY <1>5, <1>6, <1>7
  <2>2. ~(i > m)
    BY <1>8, <2>1
  <2> QED  BY <1>6, <2>2
<1>10. SubSeq(front, 1, m) = SubSeq(pageStack, 1, m)
  <2>1. /\ SubSeq(front, 1, m) \in Seq(Entries) /\ Len(SubSeq(front, 1, m)) = m
        /\ \A k \in 1 .. m : SubSeq(front, 1, m)[k] = front[k]
    <3> HIDE DEF front
    <3> QED  BY <1>7, <1>8, LowerPart
  <2>2. /\ SubSeq(pageStack, 1, m) \in Seq(Entries) /\ Len(SubSeq(pageStack, 1, m)) = m
        /\ \A k \in 1 .. m : SubSeq(pageStack, 1, m)[k] = pageStack[k]
    BY <1>2, <1>9, LowerPart
  <2> HIDE DEF front
  <2>3. \A k \in 1 .. m : SubSeq(front, 1, m)[k] = SubSeq(pageStack, 1, m)[k]
    BY <1>2, <1>7, <1>9, <2>1, <2>2
  <2> QED  BY <2>1, <2>2, <2>3, SeqEqual
<1>11. pageStack' = SubSeq(pageStack, 1, m)
  BY <1>8, <1>10 DEF Pop
<1>12. pageStack[m] \in Pages
  BY <1>2, <1>4, <1>7, <1>8, <1>9
<1>13. Top(pageStack') = pageStack[m]
  <2>1. /\ pageStack' \in Seq(Entries) /\ Len(pageStack') = m
        /\ \A k \in 1 .. m : pageStack'[k] = pageStack[k]
    BY <1>2, <1>9, <1>11, LowerPart
  <2>2. pageStack' # << >>
    BY <1>9, <2>1, EmptySeq
  <2> QED  BY <1>9, <2>1, <2>2 DEF Top, Last
<1>14. Last(pageStack) \in Pages \cup {UNDEFINED}
  BY <1>2, <1>4, <1>6 DEF Last
<1>15. \A k \in DOMAIN pageStack : k > m /\ k # n => pageStack[k] = UNDEFINED
  BY <1>2, <1>7, <1>8, <1>9
<1> QED  BY <1>9, <1>11, <1>12, <1>13, <1>14, <1>15

LEMMA PopKeeps == StackInv /\ Pop => StackInv'
<1> SUFFICES ASSUME StackInv, Pop PROVE StackInv'
  OBVIOUS
<1> DEFINE n == Len(pageStack)
           last == Last(pageStack)
<1>1. /\ PageTypeOK /\ pageStack \in Seq(Entries) /\ n \in Nat /\ DOMAIN pageStack = 1 .. n
      /\ \A p \in Pages : p # NULL /\ p # UNDEFINED
      /\ NULL # UNDEFINED
      /\ calls \in Nat /\ MaxCalls \in Nat /\ calls <= MaxCalls
  BY TypeFacts DEF StackInv, NULL, UNDEFINED
<1>2. PICK m \in 1 .. n - 1 :
          /\ pageStack' = SubSeq(pageStack, 1, m)
          /\ pageStack[m] \in Pages /\ Top(pageStack') = pageStack[m]
          /\ last \in Pages \cup {UNDEFINED}
          /\ \A i \in DOMAIN pageStack : i > m /\ i # n => pageStack[i] = UNDEFINED
  BY PoppedStack
<1>3. /\ pageStack' \in Seq(Entries) /\ Len(pageStack') = m /\ DOMAIN pageStack' = 1 .. m
      /\ \A i \in DOMAIN pageStack' : i \in DOMAIN pageStack /\ pageStack'[i] = pageStack[i]
  BY <1>1, <1>2, LowerPart
<1>4. n \in DOMAIN pageStack /\ n \notin DOMAIN pageStack' /\ last = pageStack[n]
      /\ m \in DOMAIN pageStack'
  BY <1>1, <1>2, <1>3 DEF Last
<1>5. /\ length' = Len(pageStack')
      /\ exitItem' = IF last = UNDEFINED THEN exitItem ELSE last
      /\ currentPage' = IF last = UNDEFINED THEN currentPage ELSE pageStack[m]
      /\ last # UNDEFINED => moving' = moving \cup {[kind |-> "pop", page |-> last]} /\ busy' = TRUE
      /\ last = UNDEFINED => UNCHANGED << moving, busy >>
      /\ UNCHANGED << loading, replacing, created, destroyed, stranded, calls >>
  BY <1>1, <1>2 DEF Pop, StartsUnless, Starts
<1>6. NoneLoads /\ replacing = NULL /\ \A a \in moving : a.kind # "replace"
  BY DEF Pop, NothingLoads, NothingIsReplaced, NoneLoads
<1>7. \A i \in DOMAIN pageStack : i \notin DOMAIN pageStack' =>
          pageStack[i] = UNDEFINED \/ (i = n /\ pageStack[i] = last)
  BY <1>1, <1>2, <1>3, <1>4
<1>8. last \in Pages =>
          /\ last \in created \ destroyed
          /\ \A i \in DOMAIN pageStack : pageStack[i] = last => i = n
  BY <1>4 DEF StackInv, StackedPages
<1> HIDE DEF n, last
<1>9. PageTypeOK'
  <2>1. length' \in 0 .. MaxCalls
    <3>1. n <= calls
      BY DEF StackInv, Numbered, n
    <3> QED  BY <1>1, <1>2, <1>3, <1>5, <3>1
  <2>2. /\ exitItem' \in Pages \cup {NULL} /\ currentPage' \in Pages \cup {NULL}
        /\ moving' \subseteq [kind : {"push", "pop", "replace"}, page : Pages]
        /\ busy' \in BOOLEAN
    <3>1. CASE last = UNDEFINED
      BY <1>1, <1>5, <3>1 DEF PageTypeOK
    <3>2. CASE last # UNDEFINED
      <4>1. last \in Pages /\ busy' = TRUE
        BY <1>2, <1>5, <3>2
      <4>2. [kind |-> "pop", page |-> last] \in [kind : {"push", "pop", "replace"}, page : Pages]
        BY <4>1
      <4>3. moving' \subseteq [kind : {"push", "pop", "replace"}, page : Pages]
        BY <1>1, <1>5, <3>2, <4>2 DEF PageTypeOK
      <4> QED  BY <1>2, <1>5, <3>2, <4>1, <4>3
    <3> QED  BY <3>1, <3>2
  <2> QED  BY <1>1, <1>3, <1>5, <2>1, <2>2 DEF PageTypeOK, Entries
<1>10. Placeholders'
  <2>1. \A p \in Pages : loading'[p] = 0
    BY <1>5, <1>6 DEF NoneLoads
  <2>2. \A i \in DOMAIN pageStack' : pageStack'[i] # NULL
    <3> SUFFICES ASSUME NEW i \in DOMAIN pageStack', pageStack'[i] = NULL PROVE FALSE
      OBVIOUS
    <3>1. i \in DOMAIN pageStack /\ pageStack[i] = NULL /\ i # 0
      BY <1>1, <1>3
    <3> QED  BY <1>6, <3>1 DEF StackInv, Placeholders, NoneLoads
  <2> QED  BY <2>1, <2>2 DEF Placeholders
<1>11. StackedPages'
  BY <1>3, <1>5 DEF StackInv, StackedPages
<1>12. Numbered'
  <2>1. n <= calls /\ Len(pageStack') <= n
    BY <1>1, <1>2, <1>3 DEF StackInv, Numbered, n
  <2>2. Len(pageStack') <= calls
    BY <1>1, <1>2, <1>3, <2>1
  <2> QED  BY <1>5, <2>2 DEF StackInv, Numbered
<1>13. Moves' /\ Replacement'
  <2>1. \A a \in moving' : /\ a \in moving \/ (last \in Pages /\ a = [kind |-> "pop", page |-> last])
                           /\ a.kind # "replace"
    BY <1>2, <1>5, <1>6
  <2>2. ASSUME NEW a \in moving' PROVE a.page \in created'
    <3>1. CASE a \in moving
      BY <1>5, <3>1 DEF StackInv, Moves
    <3>2. CASE a \notin moving
      BY <1>5, <1>8, <2>1, <3>2
    <3> QED  BY <3>1, <3>2
  <2>3. ASSUME NEW a \in moving', a.kind = "pop", NEW i \in DOMAIN pageStack'
        PROVE  pageStack'[i] # a.page
    <3>1. CASE a \in moving
      BY <1>3, <2>3, <3>1 DEF StackInv, Moves
    <3>2. CASE a \notin moving
      BY <1>3, <1>4, <1>8, <2>1, <3>2
    <3> QED  BY <3>1, <3>2
  <2>4. replacing' = NULL
    BY <1>5, <1>6
  <2> QED  BY <2>1, <2>2, <2>3, <2>4 DEF Moves, Replacement
<1>14. NoneLeft'
  <2> SUFFICES ASSUME NEW p \in created' \ (destroyed' \cup stranded')
               PROVE  \/ \E i \in DOMAIN pageStack' : pageStack'[i] = p
                      \/ \E a \in moving' : a.kind # "push" /\ a.page = p
    BY DEF NoneLeft
  <2>1. p \in created \ (destroyed \cup stranded) /\ p \in Pages
    BY <1>1, <1>5 DEF PageTypeOK
  <2>2. CASE \E a \in moving : a.kind # "push" /\ a.page = p
    BY <1>2, <1>5, <2>2
  <2>3. ASSUME NEW i \in DOMAIN pageStack, pageStack[i] = p
        PROVE  \/ \E j \in DOMAIN pageStack' : pageStack'[j] = p
               \/ \E a \in moving' : a.kind # "push" /\ a.page = p
    <3>1. CASE i \in DOMAIN pageStack'
      BY <1>3, <2>3, <3>1
    <3>2. CASE i \notin DOMAIN pageStack'
      <4>1. last = p /\ last # UNDEFINED
        BY <1>1, <1>7, <2>1, <2>3, <3>2
      <4> DEFINE out == [kind |-> "pop", page |-> last]
      <4>2. out \in moving' /\ out.kind = "pop" /\ out.page = p
        BY <1>5, <4>1
      <4> HIDE DEF out
      <4> QED  BY <4>2
    <3> QED  BY <3>1, <3>2
  <2> QED  BY <2>1, <2>2, <2>3 DEF StackInv, NoneLeft
<1>15. ShownIsThere'
  <2>1. CASE last = UNDEFINED
    <3> SUFFICES ASSUME currentPage' # NULL
                 PROVE  /\ \/ currentPage' \in stranded'
                           \/ \E i \in DOMAIN pageStack' : pageStack'[i] = currentPage'
                        /\ currentPage' \notin destroyed'
      BY DEF ShownIsThere
    <3>1. currentPage' = currentPage /\ currentPage \in Pages
      BY <1>1, <1>5, <2>1 DEF PageTypeOK
    <3>2. ASSUME NEW i \in DOMAIN pageStack, pageStack[i] = currentPage
          PROVE  i \in DOMAIN pageStack' /\ pageStack'[i] = currentPage'
      <4>1. i \in DOMAIN pageStack'
        BY <1>1, <1>7, <2>1, <3>1, <3>2
      <4> QED  BY <1>3, <3>1, <3>2, <4>1
    <3>3. /\ currentPage \in stranded \/ \E i \in DOMAIN pageStack : pageStack[i] = currentPage
          /\ currentPage \notin destroyed
      BY <1>1, <1>6, <3>1 DEF StackInv, ShownIsThere
    <3> QED  BY <1>5, <3>1, <3>2, <3>3
  <2>2. CASE last # UNDEFINED
    <3>1. currentPage' = pageStack[m] /\ pageStack'[m] = pageStack[m]
      BY <1>3, <1>4, <1>5, <2>2
    <3>2. pageStack[m] \notin destroyed'
      BY <1>2, <1>3, <1>4, <1>5 DEF StackInv, StackedPages
    <3> QED  BY <1>4, <3>1, <3>2 DEF ShownIsThere
  <2> QED  BY <2>1, <2>2
<1>16. Stranded'
  <2>1. \A a \in moving' : a \in moving \/ (last \in Pages /\ a.page = last)
    BY <1>2, <1>5
  <2>2. last \notin stranded
    BY <1>4 DEF StackInv, Stranded
  <2> QED  BY <1>3, <1>5, <2>1, <2>2 DEF StackInv, Stranded
<1> QED  BY <1>9, <1>10, <1>11, <1>12, <1>13, <1>14, <1>15, <1>16 DEF StackInv

----------------------------------------------------------------------------
(***************************************************************************)
(* replace() and the ends of the animations                                *)
(***************************************************************************)

LEMMA ReplaceLoadsKeeps == StackInv /\ ReplaceLoads => StackInv'
<1> SUFFICES ASSUME StackInv, ReplaceLoads PROVE StackInv'
  OBVIOUS
<1> DEFINE page == calls + 1
<1>1. /\ PageTypeOK /\ calls \in Nat /\ MaxCalls \in Nat /\ calls < MaxCalls
      /\ Len(pageStack) \in Nat /\ page \in Pages /\ page \in Nat
      /\ length \in 0 .. MaxCalls
  BY TypeFacts DEF StackInv, ReplaceLoads, MayReplace, Pages, PageTypeOK
<1>2. /\ calls' = page /\ replacing' = page /\ length # 0
      /\ UNCHANGED << pageStack, length, currentPage, exitItem, loading, moving, busy,
                      created, destroyed, stranded >>
      /\ NoneLoads /\ \A m \in moving : m.kind # "replace"
  BY <1>1 DEF ReplaceLoads, MayReplace, NothingLoads, NothingIsReplaced, NoneLoads
<1>3. /\ calls \in 0 .. calls' /\ page \notin created /\ page \in 1 .. calls'
      /\ created \subseteq 1 .. calls' /\ Len(pageStack) <= calls'
      /\ \A p \in Pages : p <= calls => p <= calls'
  BY <1>1, <1>2 DEF StackInv, Numbered, Pages
<1> HIDE DEF page
<1>4. PageTypeOK'
  <2>1. calls' \in 0 .. MaxCalls
    BY <1>1, <1>2 DEF page
  <2> QED  BY <1>1, <1>2, <2>1 DEF PageTypeOK
<1>5. Placeholders' /\ StackedPages' /\ Moves'
  BY <1>2, <1>3 DEF StackInv, Placeholders, StackedPages, Moves
<1>6. Numbered'
  BY <1>2, <1>3 DEF Numbered
<1>7. Replacement' /\ Stranded' /\ NoneLeft' /\ ShownIsThere'
  BY <1>2 DEF StackInv, Replacement, Stranded, NoneLeft, ShownIsThere, NoneLoads
<1> QED  BY <1>4, <1>5, <1>6, <1>7 DEF StackInv

LEMMA ReplacementReadyKeeps ==
    ReplaceTransition /\ StackInv /\ ReplacementReady => StackInv'
<1> SUFFICES ASSUME ReplaceTransition, StackInv, ReplacementReady PROVE StackInv'
  OBVIOUS
<1> DEFINE new == [kind |-> "replace", page |-> replacing]
<1>1. /\ PageTypeOK /\ pageStack \in Seq(Entries) /\ Len(pageStack) \in Nat
      /\ DOMAIN pageStack = 1 .. Len(pageStack)
      /\ length \in Nat /\ replacing \in Pages /\ destroyed \subseteq created
      /\ \A p \in Pages : p # NULL
  BY TypeFacts, CallsAssumption DEF StackInv, PageTypeOK, ReplacementReady
<1>2. /\ exitItem' = pageStack[length] /\ currentPage' = replacing
      /\ created' = created \cup {replacing} /\ replacing' = NULL
      /\ moving' = moving \cup {new} /\ busy' = TRUE
      /\ UNCHANGED << pageStack, length, loading, destroyed, stranded, calls >>
      /\ length <= Len(pageStack) /\ pageStack[length] \in Pages
      /\ replacing # NULL
  BY DEF ReplacementReady, Starts, Replaceable
<1>3. /\ NoneLoads /\ length # 0 /\ \A m \in moving : m.kind # "replace"
  BY <1>2 DEF StackInv, Replacement
<1>4. length \in DOMAIN pageStack
  BY <1>1, <1>2, <1>3
<1>5. replacing \in (1 .. calls) \ created
  BY <1>2 DEF StackInv, Numbered
<1>6. \A i \in DOMAIN pageStack : pageStack[i] # replacing
  BY <1>1, <1>5 DEF StackInv, StackedPages
<1>7. \A m \in moving : m.page # replacing
  BY <1>5 DEF StackInv, Moves
<1>8. PageTypeOK'
  <2>1. new \in [kind : {"push", "pop", "replace"}, page : Pages]
    BY <1>1
  <2> QED  BY <1>1, <1>2, <2>1 DEF PageTypeOK
<1>9. Placeholders'
  BY <1>2, <1>3 DEF StackInv, Placeholders, NoneLoads
<1>10. StackedPages' /\ Numbered'
  BY <1>2, <1>5 DEF StackInv, StackedPages, Numbered
<1>11. Moves'
  BY <1>2 DEF StackInv, Moves
<1>12. Replacement'
  <2>1. \A m \in moving' : m.kind = "replace" => m = new
    BY <1>2, <1>3
  <2>2. /\ new.page \notin destroyed' /\ new.page = currentPage'
        /\ [kind |-> "pop", page |-> new.page] \notin moving'
    BY <1>1, <1>2, <1>5, <1>7
  <2>3. NoneLoads' /\ replacing' = NULL
    BY <1>2, <1>3 DEF NoneLoads
  <2> QED  BY <1>2, <1>4, <1>6, <2>1, <2>2, <2>3 DEF Replacement
<1>13. new \in moving' /\ new.kind = "replace" /\ new.page = replacing
  BY <1>2
<1> HIDE DEF new
<1>14. NoneLeft' /\ ShownIsThere'
  BY <1>2, <1>13 DEF StackInv, NoneLeft, ShownIsThere
<1>15. Stranded'
  <2>1. replacing \notin stranded
    BY <1>5 DEF StackInv, Stranded
  <2> QED  BY <1>2, <1>13, <2>1 DEF StackInv, Stranded
<1> QED  BY <1>8, <1>9, <1>10, <1>11, <1>12, <1>14, <1>15 DEF StackInv

\* A replacement that is ready at once.  What its animation has to find when it stops holds
\* from the start; without one the new page is stranded.
LEMMA ReplaceIsReadyKeeps ==
    ReplaceTransition /\ StackInv /\ ReplaceIsReady => StackInv'
<1> SUFFICES ASSUME ReplaceTransition, StackInv, ReplaceIsReady PROVE StackInv'
  OBVIOUS
<1> DEFINE page == calls + 1
           new  == [kind |-> "replace", page |-> page]
<1>1. /\ PageTypeOK /\ pageStack \in Seq(Entries) /\ Len(pageStack) \in Nat
      /\ DOMAIN pageStack = 1 .. Len(pageStack)
      /\ length \in Nat /\ length # 0 /\ destroyed \subseteq created
      /\ calls \in Nat /\ MaxCalls \in Nat /\ calls < MaxCalls /\ page \in Pages
      /\ \A p \in Pages : p # NULL
  <2>1. PageTypeOK
    BY DEF StackInv
  <2>2. calls < MaxCalls /\ length > 0
    BY DEF ReplaceIsReady, MayReplace
  <2>3. length \in 0 .. MaxCalls /\ destroyed \subseteq created
    BY <2>1 DEF PageTypeOK
  <2>4. /\ pageStack \in Seq(Entries) /\ Len(pageStack) \in Nat
        /\ DOMAIN pageStack = 1 .. Len(pageStack)
        /\ calls \in Nat /\ MaxCalls \in Nat
        /\ \A p \in Pages : p # NULL
    BY <2>1, TypeFacts
  <2>5. page \in Pages
    BY <2>2, <2>4 DEF Pages
  <2> QED  BY <2>1, <2>2, <2>3, <2>4, <2>5
<1>2. /\ calls' = page /\ created' = created \cup {page} /\ currentPage' = page
      /\ exitItem' = IF Replaceable THEN pageStack[length] ELSE exitItem
      /\ \/ /\ Replaceable /\ moving' = moving \cup {new} /\ busy' = TRUE
            /\ UNCHANGED stranded
         \/ stranded' = stranded \cup {page} /\ UNCHANGED << moving, busy >>
      /\ UNCHANGED << pageStack, length, loading, replacing, destroyed >>
  BY DEF ReplaceIsReady, Starts
<1>3. NoneLoads /\ replacing = NULL /\ \A m \in moving : m.kind # "replace"
  BY DEF ReplaceIsReady, MayReplace, NothingLoads, NothingIsReplaced, NoneLoads
<1>4. /\ page \notin created /\ created' \subseteq 1 .. page
      /\ Len(pageStack) <= page
  BY <1>1, <1>2 DEF StackInv, Numbered
<1>5. \A i \in DOMAIN pageStack : pageStack[i] # page
  BY <1>1, <1>4 DEF StackInv, StackedPages
<1>6. \A m \in moving : m.page # page
  BY <1>4 DEF StackInv, Moves
<1>7. /\ new.kind = "replace" /\ new.page = page
      /\ new \in [kind : {"push", "pop", "replace"}, page : Pages]
  BY <1>1
<1>8. Replaceable => length \in DOMAIN pageStack /\ pageStack[length] \in Pages
  BY <1>1 DEF Replaceable
<1>9. calls' \in 0 .. MaxCalls
  BY <1>1, <1>2
<1> HIDE DEF page, new
<1>10. PageTypeOK'
  <2>1. exitItem' \in Pages \cup {NULL}
    BY <1>1, <1>2, <1>8 DEF PageTypeOK
  <2> QED  BY <1>1, <1>2, <1>7, <1>9, <2>1 DEF PageTypeOK
<1>11. Placeholders' /\ StackedPages' /\ Numbered'
  <2>1. Placeholders'
    BY <1>2, <1>3 DEF StackInv, Placeholders, NoneLoads
  <2>2. StackedPages'
    BY <1>2 DEF StackInv, StackedPages
  <2> QED  BY <1>2, <1>3, <1>4, <2>1, <2>2 DEF Numbered
<1>12. Moves'
  BY <1>2, <1>7 DEF StackInv, Moves
<1>13. Replacement'
  <2>1. replacing' = NULL /\ NoneLoads'
    BY <1>2, <1>3 DEF NoneLoads
  <2>2. ASSUME NEW m \in moving', m.kind = "replace"
        PROVE  m = new /\ Replaceable
    BY <1>2, <1>3, <2>2
  <2>3. [kind |-> "pop", page |-> page] \notin moving'
    <3>1. [kind |-> "pop", page |-> page] # new
      BY <1>7
    <3> QED  BY <1>2, <1>6, <3>1
  <2>4. page \notin destroyed'
    BY <1>1, <1>2, <1>4
  <2> QED  BY <1>2, <1>5, <1>7, <1>8, <2>1, <2>2, <2>3, <2>4 DEF Replacement
<1>14. Stranded'
  BY <1>1, <1>2, <1>4, <1>5, <1>6, <1>7 DEF StackInv, Stranded
<1>15. NoneLeft'
  BY <1>2, <1>7 DEF StackInv, NoneLeft
<1>16. ShownIsThere'
  BY <1>1, <1>2, <1>4, <1>7 DEF ShownIsThere
<1> QED  BY <1>10, <1>11, <1>12, <1>13, <1>14, <1>15, <1>16 DEF StackInv

LEMMA ReplacementFailsKeeps == StackInv /\ ReplacementFails => StackInv'
<1> SUFFICES ASSUME StackInv, ReplacementFails PROVE StackInv'
  OBVIOUS
<1>1. /\ replacing' = NULL
      /\ UNCHANGED << pageStack, length, currentPage, exitItem, loading, moving, busy,
                      created, destroyed, stranded, calls >>
  BY DEF ReplacementFails
<1>2. PageTypeOK'
  BY <1>1 DEF StackInv, PageTypeOK
<1>3. Placeholders' /\ StackedPages' /\ Numbered' /\ Moves'
  BY <1>1 DEF StackInv, Placeholders, StackedPages, Numbered, Moves
<1>4. Replacement' /\ Stranded' /\ NoneLeft' /\ ShownIsThere'
  BY <1>1 DEF StackInv, Replacement, Stranded, NoneLeft, ShownIsThere, NoneLoads
<1> QED  BY <1>2, <1>3, <1>4 DEF StackInv

LEMMA PushStopsKeeps == ASSUME StackInv, NEW m \in moving, PushStops(m) PROVE StackInv'
<1>1. /\ m.kind = "push" /\ moving' = moving \ {m} /\ busy' = FALSE
      /\ UNCHANGED << pageStack, length, currentPage, exitItem, loading, replacing, created,
                      destroyed, stranded, calls >>
  BY DEF PushStops
<1>2. PageTypeOK'
  BY <1>1 DEF StackInv, PageTypeOK
<1>3. Placeholders' /\ StackedPages' /\ Numbered' /\ Moves'
  BY <1>1 DEF StackInv, Placeholders, StackedPages, Numbered, Moves
<1>4. Replacement'
  BY <1>1 DEF StackInv, Replacement, NoneLoads
<1>5. \A a \in moving : a.kind # "push" => a \in moving'
  BY <1>1
<1>6. Stranded' /\ NoneLeft' /\ ShownIsThere'
  BY <1>1, <1>5 DEF StackInv, Stranded, NoneLeft, ShownIsThere
<1> QED  BY <1>2, <1>3, <1>4, <1>6 DEF StackInv

LEMMA PopStopsKeeps == ASSUME StackInv, NEW m \in moving, PopStops(m) PROVE StackInv'
<1>1. /\ m.kind = "pop" /\ moving' = moving \ {m} /\ busy' = FALSE
      /\ destroyed' = destroyed \cup {m.page}
      /\ UNCHANGED << pageStack, length, currentPage, exitItem, loading, replacing, created,
                      stranded, calls >>
  BY DEF PopStops
<1>2. m.page \in created /\ \A i \in DOMAIN pageStack : pageStack[i] # m.page
  BY <1>1 DEF StackInv, Moves
<1>3. PageTypeOK'
  BY <1>1, <1>2 DEF StackInv, PageTypeOK
<1>4. Placeholders' /\ StackedPages' /\ Numbered' /\ Moves'
  BY <1>1, <1>2 DEF StackInv, Placeholders, StackedPages, Numbered, Moves
<1>5. Replacement'
  <2>1. m = [kind |-> "pop", page |-> m.page]
    BY <1>1 DEF StackInv, PageTypeOK
  <2>2. ASSUME NEW a \in moving, a.kind = "replace" PROVE a.page # m.page
    <3>1. [kind |-> "pop", page |-> a.page] \notin moving
      BY <2>2 DEF StackInv, Replacement
    <3> QED  BY <2>1, <3>1
  <2> QED  BY <1>1, <2>2 DEF StackInv, Replacement, NoneLoads
<1>6. NoneLeft'
  <2>1. \A p \in created' \ (destroyed' \cup stranded') :
            p \in created \ (destroyed \cup stranded) /\ p # m.page
    BY <1>1
  <2>2. \A a \in moving : a.page # m.page => a \in moving'
    BY <1>1
  <2> QED  BY <1>1, <2>1, <2>2 DEF StackInv, NoneLeft
<1>7. Stranded' /\ ShownIsThere'
  <2>1. m.page \notin stranded
    BY DEF StackInv, Stranded
  <2>2. ASSUME NEW a \in moving, a.kind = "replace" PROVE a \in moving'
    BY <1>1, <2>2
  <2>3. Stranded'
    BY <1>1, <2>1 DEF StackInv, Stranded
  <2> QED  BY <1>1, <1>2, <2>1, <2>2, <2>3 DEF StackInv, ShownIsThere
<1> QED  BY <1>3, <1>4, <1>5, <1>6, <1>7 DEF StackInv

LEMMA ReplaceStopsKeeps == ASSUME StackInv, NEW m \in moving, ReplaceStops(m) PROVE StackInv'
<1>1. /\ m.kind = "replace" /\ moving' = moving \ {m} /\ busy' = FALSE
      /\ pageStack' = [pageStack EXCEPT ![length] = currentPage]
      /\ destroyed' = destroyed \cup {exitItem}
      /\ UNCHANGED << length, currentPage, exitItem, loading, replacing, created, stranded,
                      calls >>
  BY DEF ReplaceStops
<1>2. /\ NoneLoads /\ length \in DOMAIN pageStack
      /\ exitItem = pageStack[length] /\ exitItem \in Pages
      /\ m.page = currentPage /\ currentPage \notin destroyed
      /\ \A i \in DOMAIN pageStack : pageStack[i] # currentPage
      /\ [kind |-> "pop", page |-> currentPage] \notin moving
      /\ replacing = NULL
  BY <1>1 DEF StackInv, Replacement
<1>3. /\ currentPage \in Pages /\ currentPage \in created
      /\ currentPage # NULL /\ currentPage \in Entries
      /\ pageStack \in Seq(Entries) /\ PageTypeOK /\ m \in [kind : {"push", "pop", "replace"}, page : Pages]
  BY <1>2, TypeFacts DEF StackInv, Moves, PageTypeOK, Entries
<1>4. /\ pageStack' \in Seq(Entries)
      /\ Len(pageStack') = Len(pageStack) /\ DOMAIN pageStack' = DOMAIN pageStack
      /\ \A i \in DOMAIN pageStack :
             pageStack'[i] = IF i = length THEN currentPage ELSE pageStack[i]
  BY <1>1, <1>2, <1>3, PutEntry
<1>5. exitItem \in created /\ exitItem # currentPage
  BY <1>2 DEF StackInv, StackedPages
<1>6. \A i \in DOMAIN pageStack : pageStack[i] = exitItem => i = length
  BY <1>2 DEF StackInv, StackedPages
<1>7. \A a \in moving : a.kind = "replace" => a = m
  <2>1. \A a \in moving : a.kind = "replace" => a.page = m.page
    BY <1>2 DEF StackInv, Replacement
  <2> QED  BY <1>1, <1>3, <2>1 DEF PageTypeOK
<1>8. PageTypeOK'
  BY <1>1, <1>3, <1>4, <1>5 DEF PageTypeOK, Entries
<1>9. Placeholders'
  <2>1. \A i \in DOMAIN pageStack' : pageStack'[i] = NULL => pageStack[i] = NULL
    BY <1>3, <1>4
  <2> QED  BY <1>1, <1>2, <1>4, <2>1 DEF StackInv, Placeholders, NoneLoads
<1>10. StackedPages' /\ Numbered'
  <2>1. \A i \in DOMAIN pageStack' :
            pageStack'[i] \in Pages => pageStack'[i] \in created' \ destroyed'
    BY <1>1, <1>2, <1>3, <1>4, <1>5, <1>6 DEF StackInv, StackedPages
  <2>2. \A i, j \in DOMAIN pageStack' :
            pageStack'[i] \in Pages /\ pageStack'[i] = pageStack'[j] => i = j
    BY <1>2, <1>4 DEF StackInv, StackedPages
  <2> QED  BY <1>1, <1>4, <2>1, <2>2 DEF StackInv, StackedPages, Numbered
<1>11. Moves'
  <2>1. ASSUME NEW a \in moving, a.kind = "pop" PROVE a.page # currentPage
    <3>1. a = [kind |-> "pop", page |-> a.page]
      BY <1>3, <2>1 DEF PageTypeOK
    <3> QED  BY <1>2, <3>1
  <2> QED  BY <1>1, <1>4, <2>1 DEF StackInv, Moves
<1>12. Replacement'
  BY <1>1, <1>2, <1>7 DEF Replacement
<1>13. NoneLeft'
  <2> SUFFICES ASSUME NEW p \in created' \ (destroyed' \cup stranded')
               PROVE  \/ \E i \in DOMAIN pageStack' : pageStack'[i] = p
                      \/ \E a \in moving' : a.kind # "push" /\ a.page = p
    BY DEF NoneLeft
  <2>1. p \in created \ (destroyed \cup stranded) /\ p # exitItem
    BY <1>1
  <2>2. CASE \E i \in DOMAIN pageStack : pageStack[i] = p
    BY <1>2, <1>4, <2>1, <2>2
  <2>3. CASE \E a \in moving : a.kind # "push" /\ a.page = p
    BY <1>1, <1>2, <1>4, <2>3
  <2> QED  BY <2>1, <2>2, <2>3 DEF StackInv, NoneLeft
<1>14. ShownIsThere'
  BY <1>1, <1>2, <1>4, <1>5 DEF ShownIsThere
<1>15. Stranded'
  <2>1. currentPage \notin stranded /\ exitItem \notin stranded
    BY <1>2 DEF StackInv, Stranded
  <2> QED  BY <1>1, <1>4, <2>1 DEF StackInv, Stranded
<1> QED  BY <1>8, <1>9, <1>10, <1>11, <1>12, <1>13, <1>14, <1>15 DEF StackInv

----------------------------------------------------------------------------
(***************************************************************************)
(* The theorems.  Without a replaceTransition the page that was replaced is*)
(* destroyed and stays on the stack, which the page that is shown never    *)
(* joins (PageStack.qml:183-185, 212-214): CurrentIsOnStack does not hold, *)
(* so that they assume one.                                                *)
(***************************************************************************)

LEMMA InvStep == ReplaceTransition /\ StackInv /\ [Next]_vars => StackInv'
<1> SUFFICES ASSUME ReplaceTransition, StackInv, [Next]_vars PROVE StackInv'
  OBVIOUS
<1>1. CASE PushLoads
  BY <1>1, PushLoadsKeeps
<1>2. CASE PushIsReady
  BY <1>2, PushIsReadyKeeps
<1>3. CASE Pop
  BY <1>3, PopKeeps
<1>4. CASE ReplaceLoads
  BY <1>4, ReplaceLoadsKeeps
<1>5. CASE ReplacementReady
  BY <1>5, ReplacementReadyKeeps
<1>6. CASE ReplacementFails
  BY <1>6, ReplacementFailsKeeps
<1>6a. CASE ReplaceIsReady
  BY <1>6a, ReplaceIsReadyKeeps
<1>7. ASSUME NEW p \in Pages, PageReady(p) \/ PageFails(p) PROVE StackInv'
  BY <1>7, PageReadyKeeps, PageFailsKeeps
<1>8. ASSUME NEW m \in moving, PushStops(m) \/ PopStops(m) \/ ReplaceStops(m)
      PROVE  StackInv'
  BY <1>8, PushStopsKeeps, PopStopsKeeps, ReplaceStopsKeeps
<1>9. CASE UNCHANGED vars
  <2>1. PageTypeOK' /\ Placeholders' /\ StackedPages'
    BY <1>9 DEF vars, StackInv, PageTypeOK, Placeholders, StackedPages
  <2>2. Numbered' /\ Moves' /\ Replacement'
    BY <1>9 DEF vars, StackInv, Numbered, Moves, Replacement, NoneLoads
  <2>3. Stranded' /\ NoneLeft' /\ ShownIsThere'
    BY <1>9 DEF vars, StackInv, Stranded, NoneLeft, ShownIsThere
  <2> QED  BY <2>1, <2>2, <2>3 DEF StackInv
<1> QED  BY <1>1, <1>2, <1>3, <1>4, <1>5, <1>6, <1>6a, <1>7, <1>8, <1>9 DEF Next

LEMMA StackIsKept == ReplaceTransition => (Spec => []StackInv)
<1> SUFFICES ASSUME ReplaceTransition PROVE Spec => []StackInv
  OBVIOUS
<1>1. StackInv /\ [Next]_vars => StackInv'
  BY InvStep
<1> QED  BY InvInit, <1>1, PTL DEF Spec

\* Every variable keeps to its type: in particular no entry but a page, a placeholder or a
\* mark gets on the stack, and what is destroyed had been created (PageStack.qml:59-217).
THEOREM PagesTyped == ReplaceTransition => (Spec => []PageTypeOK)
<1>1. StackInv => PageTypeOK
  BY DEF StackInv
<1> QED  BY <1>1, StackIsKept, PTL

\* The page that is shown is not destroyed and is on the stack, once no replacement moves
\* in: whatever was pushed, failed or was popped meanwhile, and in both branches of
\* replace().  The exception, which is in the property, is a page that was ready at once and
\* that replace() shows before it throws (PageStack.qml:75-83, 161-213).
THEOREM ShownPageIsOnStack == ReplaceTransition => (Spec => []CurrentIsOnStack)
<1>1. StackInv => CurrentIsOnStack
  BY DEF StackInv, ShownIsThere, CurrentIsOnStack, NothingMovesIn, OnStack, PageTypeOK
<1> QED  BY <1>1, StackIsKept, PTL

\* Each page that was created and not destroyed is on the stack or in an animation, but
\* for those that replace() left when it threw: no other stays behind that nothing will
\* destroy (PageStack.qml:59-96, 105-128, 158-217).
THEOREM NoPageIsLost == ReplaceTransition => (Spec => []NoPageLost)
<1>1. StackInv => NoPageLost
  BY DEF StackInv, NoneLeft, NoPageLost, OnStack, PageTypeOK
<1> QED  BY <1>1, StackIsKept, PTL

\* A step that takes a page off the stack is a pop(), and shows a page that was created
\* and is neither destroyed nor the one that goes (PageStack.qml:105-128).
LEMMA StepUncovers ==
    StackInv /\ [Next]_vars =>
        (Len(pageStack') < Len(pageStack) /\ Top(pageStack) \in Pages =>
            currentPage' \in created \ (destroyed \cup {Top(pageStack)}))
<1> SUFFICES ASSUME StackInv, [Next]_vars,
                    Len(pageStack') < Len(pageStack), Top(pageStack) \in Pages
             PROVE  currentPage' \in created \ (destroyed \cup {Top(pageStack)})
  OBVIOUS
<1> DEFINE n == Len(pageStack)
<1>1. /\ pageStack \in Seq(Entries) /\ n \in Nat /\ DOMAIN pageStack = 1 .. n
      /\ \A p \in Pages : p # NULL /\ p # UNDEFINED
      /\ NULL \in Entries /\ UNDEFINED \in Entries /\ Pages \subseteq Entries
  BY TypeFacts DEF StackInv, Entries
<1>2. Top(pageStack) = Last(pageStack) /\ pageStack # << >> /\ Last(pageStack) = pageStack[n]
  BY <1>1 DEF Top, Last
<1>3. CASE Pop
  <2>1. PICK m \in 1 .. n - 1 :
            pageStack[m] \in Pages /\ Top(pageStack') = pageStack[m]
    BY <1>3, PoppedStack
  <2>2. currentPage' = pageStack[m]
    BY <1>1, <1>2, <1>3, <2>1 DEF Pop
  <2>3. m \in DOMAIN pageStack /\ n \in DOMAIN pageStack /\ m # n
    <3> HIDE DEF n
    <3> QED  BY <1>1, <2>1
  <2>4. pageStack[m] \in created \ destroyed /\ pageStack[m] # pageStack[n]
    BY <1>2, <2>1, <2>3 DEF StackInv, StackedPages
  <2> QED  BY <1>2, <2>2, <2>4
<1>4. CASE PushLoads
  BY <1>1, <1>4, AddEntry DEF PushLoads
<1>5. CASE PushIsReady
  <2>1. /\ Append(pageStack, NULL) \in Seq(Entries) /\ Len(Append(pageStack, NULL)) = n + 1
    BY <1>1, AddEntry
  <2>2. pageStack' = [Append(pageStack, NULL) EXCEPT ![n + 1] = calls + 1]
    BY <1>5 DEF PushIsReady, Show
  <2>3. calls + 1 \in Entries /\ n + 1 \in DOMAIN Append(pageStack, NULL)
    BY <1>1, <1>5, AddEntry, TypeFacts DEF StackInv, PushIsReady, MayPush, Pages, Entries
  <2>4. Len(pageStack') = n + 1
    BY <2>1, <2>2, <2>3, PutEntry
  <2> QED  BY <1>1, <2>4
<1>6. ASSUME NEW p \in Pages, PageReady(p) PROVE Len(pageStack') = n
  <2>1. loading[p] \in DOMAIN pageStack
    BY <1>6 DEF PageReady, StackInv, Placeholders
  <2> QED  BY <1>1, <1>6, <2>1, PutEntry DEF PageReady, Show
<1>7. ASSUME NEW p \in Pages, PageFails(p) PROVE Len(pageStack') = n
  <2>1. loading[p] \in DOMAIN pageStack /\ pageStack[loading[p]] = NULL
    BY <1>7 DEF PageFails, StackInv, Placeholders
  <2>2. loading[p] # n
    BY <1>1, <1>2, <2>1
  <2>3. pageStack' = [pageStack EXCEPT ![loading[p]] = UNDEFINED]
    BY <1>7, <2>2 DEF PageFails, WithoutFailed
  <2> QED  BY <1>1, <2>1, <2>3, PutEntry
<1>8. CASE ReplaceLoads \/ ReplaceIsReady \/ ReplacementReady \/ ReplacementFails
  BY <1>1, <1>8 DEF ReplaceLoads, ReplaceIsReady, ReplacementReady, ReplacementFails
<1>9. ASSUME NEW m \in moving, PushStops(m) \/ PopStops(m) \/ ReplaceStops(m)
      PROVE  Len(pageStack') = n
  <2>1. CASE PushStops(m) \/ PopStops(m)
    BY <2>1 DEF PushStops, PopStops
  <2>2. CASE ReplaceStops(m)
    <3>1. length \in DOMAIN pageStack /\ m.page = currentPage /\ m.page \in Pages
      BY <2>2 DEF ReplaceStops, StackInv, Replacement, PageTypeOK
    <3> QED  BY <1>1, <2>2, <3>1, PutEntry DEF ReplaceStops
  <2> QED  BY <1>9, <2>1, <2>2
<1>10. CASE UNCHANGED vars
  BY <1>1, <1>10 DEF vars
<1> QED
  BY <1>1, <1>3, <1>4, <1>5, <1>6, <1>7, <1>8, <1>9, <1>10 DEF Next

\* Whenever a page leaves the stack the page that is shown is one that is there, and not
\* the one that leaves: failed pages between the two are skipped (PageStack.qml:105-128).
THEOREM PoppedPageUncovers == ReplaceTransition => (Spec => PopUncoversPage)
<1>1. StackInv /\ [Next]_vars =>
          [Len(pageStack') < Len(pageStack) /\ Top(pageStack) \in Pages =>
            currentPage' \in created \ (destroyed \cup {Top(pageStack)})]_vars
  BY StepUncovers
<1> QED  BY <1>1, StackIsKept, PTL DEF Spec, PopUncoversPage
=============================================================================
