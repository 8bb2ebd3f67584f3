------------------------------ MODULE PageStack ------------------------------
(***************************************************************************)
(* Eos.Controls PageStack (src/Eos/Controls/PageStack.qml): a stack of     *)
(* pages that are created asynchronously.  push() puts a null placeholder  *)
(* on the stack and the incubator's handler replaces it; pop() and         *)
(* replace() animate, and the end of the animation does the rest.          *)
(*                                                                         *)
(* A page is named by the call that creates it.  The callers are those the *)
(* component can serve: no call is made while a replacement loads or moves *)
(* in, and pop() and replace() not while a page loads; pages load together *)
(* and every animation may overlap with calls of push() and pop().  The    *)
(* hazards of the other orders are listed in PROJECT.json.                 *)
(***************************************************************************)
EXTENDS Integers, Sequences, SequencesExt, FiniteSets

CONSTANTS
    MaxCalls,             \* bound: calls of push() and replace()
    ReplaceTransition     \* does the delegate have a replaceTransition?

ASSUME CallsAssumption == MaxCalls \in Nat \ {0}
ASSUME TransitionAssumption == ReplaceTransition \in BOOLEAN

Pages     == 1 .. MaxCalls
NULL      == 0     \* the placeholder of a page that is loading; no item
UNDEFINED == -1    \* the mark of a page that failed below another one

VARIABLES
    pageStack,    \* sequence of pages, NULLs and UNDEFINEDs
    length,       \* the property "length", not the length of pageStack
    currentPage,
    exitItem,     \* delegate.exitItem
    loading,      \* [Pages -> position] of a push, 0 when it is not loading
    replacing,    \* the page that a replace() is loading, or NULL
    moving,       \* animations that run: [kind, page]
    busy,
    created,      \* pages whose object exists or existed
    destroyed,    \* those whose destroy() was called
    stranded,     \* those that a replace() showed before it threw (line 203)
    calls         \* calls made

vars == << pageStack, length, currentPage, exitItem, loading, replacing,
           moving, busy, created, destroyed, stranded, calls >>

PageTypeOK ==
    /\ pageStack \in Seq(Pages \cup {NULL, UNDEFINED})
    /\ length \in 0 .. MaxCalls
    /\ currentPage \in Pages \cup {NULL}
    /\ exitItem \in Pages \cup {NULL}
    /\ loading \in [Pages -> 0 .. MaxCalls]
    /\ replacing \in Pages \cup {NULL}
    /\ moving \subseteq [kind : {"push", "pop", "replace"}, page : Pages]
    /\ busy \in BOOLEAN
    /\ created \subseteq Pages
    /\ destroyed \subseteq created /\ stranded \subseteq created
    /\ calls \in 0 .. MaxCalls

Init ==
    /\ pageStack = << >>
    /\ length = 0
    /\ currentPage = NULL
    /\ exitItem = NULL
    /\ loading = [p \in Pages |-> 0]
    /\ replacing = NULL
    /\ moving = {}
    /\ busy = FALSE
    /\ created = {} /\ destroyed = {} /\ stranded = {}
    /\ calls = 0

NothingLoads == replacing = NULL /\ \A p \in Pages : loading[p] = 0
NothingIsReplaced ==
    replacing = NULL /\ \A m \in moving : m.kind # "replace"

Starts(kind, page) ==
    /\ moving' = moving \cup {[kind |-> kind, page |-> page]}
    /\ busy' = TRUE

\* stack[stack.length - 1]
Top(stack) == IF stack = << >> THEN UNDEFINED ELSE Last(stack)

\* An animation of `page' starts, but assigning undefined to enterItem or
\* exitItem, of type Item, throws before it.
StartsUnless(undefined, kind, page) ==
    IF undefined THEN UNCHANGED << moving, busy >> ELSE Starts(kind, page)

----------------------------------------------------------------------------
(***************************************************************************)
(* push()                                                                  *)
(***************************************************************************)

\* wrap() of a page that is ready at position `at' of `stack': only the page on
\* top becomes current.
Show(page, at, stack) ==
    /\ pageStack' = [stack EXCEPT ![at] = page]
    /\ length' = Len(stack)
    /\ currentPage' = IF at = Len(stack) THEN page ELSE currentPage
    /\ exitItem' = IF Top(pageStack') = UNDEFINED THEN exitItem ELSE Top(pageStack')
    /\ created' = created \cup {page}
    /\ StartsUnless(Top(pageStack') = UNDEFINED, "push", page)

MayPush == calls < MaxCalls /\ NothingIsReplaced

\* The incubator starts to load the page.
PushLoads ==
    LET page == calls + 1
    IN  /\ MayPush
        /\ calls' = page
        /\ pageStack' = Append(pageStack, NULL)
        /\ loading' = [loading EXCEPT ![page] = Len(pageStack')]
        /\ UNCHANGED << length, currentPage, exitItem, replacing, moving, busy,
                        created, destroyed, stranded >>

\* Without an incubation controller (until the first window is there) the page
\* is ready when incubateObject() returns.
PushIsReady ==
    LET page == calls + 1
    IN  /\ MayPush
        /\ calls' = page
        /\ Show(page, Len(pageStack) + 1, Append(pageStack, NULL))
        /\ UNCHANGED << loading, replacing, destroyed, stranded >>

\* onStatusChanged(Component.Ready)
PageReady(page) ==
    /\ loading[page] # 0
    /\ Show(page, loading[page], pageStack)
    /\ loading' = [loading EXCEPT ![page] = 0]
    /\ UNCHANGED << replacing, destroyed, stranded, calls >>

\* Mutant: whatever is on top is dropped.
WithoutTop(stack, at) == Front(stack)

\* What a failure at position `at' leaves: the placeholder on top is dropped, one
\* below is marked for a later pop().
WithoutFailed(stack, at) ==
    IF at = Len(stack) THEN Front(stack) ELSE [stack EXCEPT ![at] = UNDEFINED]

\* onStatusChanged(Component.Error)
PageFails(page) ==
    /\ loading[page] # 0
    /\ pageStack' = WithoutFailed(pageStack, loading[page])
    /\ loading' = [loading EXCEPT ![page] = 0]
    /\ UNCHANGED << length, currentPage, exitItem, replacing, moving, busy,
                    created, destroyed, stranded, calls >>

----------------------------------------------------------------------------
(***************************************************************************)
(* pop()                                                                   *)
(***************************************************************************)

\* getObjectsNumber()
ObjectsNumber(stack) == Cardinality({i \in DOMAIN stack : stack[i] # UNDEFINED})

\* Mutant: marked entries stay.
AsItIs(stack) == stack

\* removeUndefined()
WithoutUndefined(stack) ==
    LET defined == {i \in DOMAIN stack : stack[i] # UNDEFINED}
        last    == CHOOSE i \in defined \cup {0} : \A j \in defined : j <= i
    IN  SubSeq(stack, 1, last)

\* pop(): the page goes when its animation has stopped.  A mark on top is only
\* dropped.
Pop ==
    LET page == Last(pageStack)
        rest == WithoutUndefined(Front(pageStack))
    IN  /\ NothingLoads /\ NothingIsReplaced
        /\ length >= 2 /\ ObjectsNumber(pageStack) >= 2
        /\ pageStack' = rest
        /\ length' = Len(rest)
        /\ exitItem' = IF page = UNDEFINED THEN exitItem ELSE page
        /\ currentPage' = IF UNDEFINED \in {page, Top(rest)} THEN currentPage
                                                            ELSE Top(rest)
        /\ StartsUnless(UNDEFINED \in {page, Top(rest)}, "pop", page)
        /\ UNCHANGED << loading, replacing, created, destroyed, stranded, calls >>

----------------------------------------------------------------------------
(***************************************************************************)
(* replace()                                                               *)
(***************************************************************************)
MayReplace ==
    /\ NothingLoads /\ NothingIsReplaced
    /\ calls < MaxCalls /\ length > 0

ReplaceLoads ==
    /\ MayReplace
    /\ calls' = calls + 1
    /\ replacing' = calls + 1
    /\ UNCHANGED << pageStack, length, currentPage, exitItem, loading, moving,
                    busy, created, destroyed, stranded >>

\* The entry that `index' names is a page: the length can be stale, or the entry
\* a mark, after pages that failed.
Replaceable == length <= Len(pageStack) /\ pageStack[length] \in Pages

\* The new page takes the wrapper of the old one, pageStack[index], and is
\* current.  With a transition the stack follows when the animation has stopped;
\* without one the old page is destroyed at once and the stack never follows.
ReplacementReady ==
    /\ replacing # NULL
    /\ Replaceable
    /\ exitItem' = pageStack[length]
    /\ currentPage' = replacing
    /\ created' = created \cup {replacing}
    /\ replacing' = NULL
    /\ \/ /\ ReplaceTransition
          /\ Starts("replace", replacing)
          /\ UNCHANGED destroyed
       \/ /\ ~ReplaceTransition
          /\ destroyed' = destroyed \cup {pageStack[length]}
          /\ UNCHANGED << moving, busy >>
    /\ UNCHANGED << pageStack, length, loading, stranded, calls >>

\* The new page is ready when incubateObject() returns, as in PushIsReady.  It gets a
\* wrapper of its own and is current at once.  Then exitItem = undefined throws, or
\* the assignment of scheduleDestruction does, which PageStackTransition does not have
\* (an animation of the application's own may have it): the old page stays on the
\* stack, and nothing will put the new one there or destroy it.
ReplaceIsReady ==
    LET page == calls + 1
    IN  /\ MayReplace
        /\ calls' = page
        /\ created' = created \cup {page}
        /\ currentPage' = page
        /\ exitItem' = IF Replaceable THEN pageStack[length] ELSE exitItem
        /\ \/ /\ Replaceable /\ ReplaceTransition
              /\ Starts("replace", page)
              /\ UNCHANGED << destroyed, stranded >>
           \/ /\ ~Replaceable \/ ReplaceTransition
              /\ stranded' = stranded \cup {page}
              /\ UNCHANGED << moving, busy, destroyed >>
           \/ /\ Replaceable /\ ~ReplaceTransition
              /\ destroyed' = destroyed \cup {pageStack[length]}
              /\ UNCHANGED << moving, busy, stranded >>
        /\ UNCHANGED << pageStack, length, loading, replacing >>

\* The page cannot be created, and the handler of replace() does nothing, or
\* reading the wrapper of the old page throws.
ReplacementFails ==
    /\ replacing # NULL
    /\ replacing' = NULL
    /\ UNCHANGED << pageStack, length, currentPage, exitItem, loading, moving,
                    busy, created, destroyed, stranded, calls >>

----------------------------------------------------------------------------
(***************************************************************************)
(* The "stopped" handlers of the animations.                               *)
(***************************************************************************)
PushStops(m) ==
    /\ m \in moving /\ m.kind = "push"
    /\ moving' = moving \ {m}
    /\ busy' = FALSE
    /\ UNCHANGED << pageStack, length, currentPage, exitItem, loading, replacing,
                    created, destroyed, stranded, calls >>

\* Mutant: destroys what the delegate names at the end of the animation.
PopStopsShared(m) ==
    /\ m \in moving /\ m.kind = "pop"
    /\ moving' = moving \ {m}
    /\ destroyed' = destroyed \cup {exitItem}
    /\ busy' = FALSE
    /\ UNCHANGED << pageStack, length, currentPage, exitItem, loading, replacing,
                    created, stranded, calls >>

PopStops(m) ==
    /\ m \in moving /\ m.kind = "pop"
    /\ moving' = moving \ {m}
    /\ destroyed' = destroyed \cup {m.page}
    /\ busy' = FALSE
    /\ UNCHANGED << pageStack, length, currentPage, exitItem, loading, replacing,
                    created, stranded, calls >>

\* Mutant: the stack keeps the page that was replaced.
ReplaceStopsOnly(m) ==
    /\ m \in moving /\ m.kind = "replace"
    /\ moving' = moving \ {m}
    /\ destroyed' = destroyed \cup {exitItem}
    /\ busy' = FALSE
    /\ UNCHANGED << pageStack, length, currentPage, exitItem, loading, replacing,
                    created, stranded, calls >>

ReplaceStops(m) ==
    /\ m \in moving /\ m.kind = "replace"
    /\ moving' = moving \ {m}
    /\ pageStack' = [pageStack EXCEPT ![length] = currentPage]
    /\ destroyed' = destroyed \cup {exitItem}
    /\ busy' = FALSE
    /\ UNCHANGED << length, currentPage, exitItem, loading, replacing, created,
                    stranded, calls >>

Next ==
    \/ PushLoads \/ PushIsReady \/ Pop
    \/ ReplaceLoads \/ ReplaceIsReady \/ ReplacementReady \/ ReplacementFails
    \/ \E p \in Pages : PageReady(p) \/ PageFails(p)
    \/ \E m \in moving : PushStops(m) \/ PopStops(m) \/ ReplaceStops(m)

Spec == Init /\ [][Next]_vars

----------------------------------------------------------------------------
OnStack == {pageStack[i] : i \in DOMAIN pageStack} \cap Pages

NothingMovesIn == \A m \in moving : m.kind # "replace"

\* "save the reference of the new page in the stack" (PageStack.qml:168, 195): the
\* page that is shown is on the stack and not destroyed, once no replacement is
\* moving in.
ReplacementIsSaved ==
    NothingMovesIn /\ currentPage # NULL => currentPage \in OnStack \ destroyed

\* The page that is shown is never one that is destroyed, and it is on the stack, in
\* whatever order pages get ready, fail, move and are popped; the one exception is a
\* page that replace() shows just before it throws (PageStack.qml:75-83, 161-213).
CurrentIsOnStack ==
    NothingMovesIn /\ currentPage # NULL =>
        currentPage \in (OnStack \cup stranded) \ destroyed

\* No page is lost, in whatever order pages get ready or fail: what was created and
\* not destroyed is on the stack, or moves in or out, except for the pages that a
\* replace() left behind when it threw (PageStack.qml:59-96, 122-145, 189-213).
NoPageLost ==
    created \ destroyed \subseteq OnStack \cup {m.page : m \in moving} \cup stranded

\* A page that is popped uncovers a page that is still there: the failed pages
\* between the two are skipped and do not count as pages below (PageStack.qml:105-128).
PopUncoversPage ==
    [][Len(pageStack') < Len(pageStack) /\ Top(pageStack) \in Pages =>
            currentPage' \in created \ (destroyed \cup {Top(pageStack)})]_vars
=============================================================================
