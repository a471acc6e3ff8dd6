---------------------------- MODULE PagedKvCache ----------------------------
(***************************************************************************)
(* The paged key-value cache of inference/cpu/kv_cache.rs.  Each layer has *)
(* a page table and the contents of its pages; the layers share one pool   *)
(* of page ids behind a lock.  A layer is used by one thread at a time,    *)
(* two layers by two threads, so each token of an append is a step.        *)
(*                                                                         *)
(* A token stands for its key and its value tensor, which are cut and      *)
(* concatenated alike.  A failure of candle itself is not modelled.        *)
(***************************************************************************)
EXTENDS Integers, Sequences, FiniteSets, FiniteSetsExt, SequencesExt

CONSTANTS
  Layers, Tokens,
  PageSize,  \* page_config.page_size
  MaxPages,  \* page_config.max_pages
  MaxAppend  \* bound of the model: tokens in one call of append

KvAssumption ==
  /\ IsFiniteSet(Layers)
  /\ PageSize \in Nat /\ MaxPages \in Nat /\ MaxAppend \in Nat

VARIABLES
  freePages,  \* the stack of free page ids
  allocated,  \* allocated(): total_allocated - total_freed
  pageTable,  \* pageTable[l]: the page ids of layer l, in order
  pages,      \* pages[l][p]: the tokens in page p of layer l
  seqLen,     \* seqLen[l]: seq_len
  appending   \* appending[l]: the tokens that append has yet to store

pool == <<freePages, allocated>>
kvVars == <<pool, pageTable, pages, seqLen, appending>>

PageIds == 0..(MaxPages - 1)
NoPages == [p \in PageIds |-> <<>>]

KvInit ==
  /\ freePages = [i \in 1..MaxPages |-> MaxPages - i]
  /\ allocated = 0
  /\ pageTable = [l \in Layers |-> <<>>]
  /\ pages = [l \in Layers |-> NoPages]
  /\ seqLen = [l \in Layers |-> 0]
  /\ appending = [l \in Layers |-> <<>>]

-----------------------------------------------------------------------------
BeginAppend(l, tokens) ==
  /\ appending[l] = <<>>
  /\ appending' = [appending EXCEPT ![l] = tokens]
  /\ UNCHANGED <<pool, pageTable, pages, seqLen>>

LastPage(l) == Last(pageTable[l])

\* used_slots is the number of tokens in the page.
NeedsPage(l) == pageTable[l] # <<>> => Len(pages[l][LastPage(l)]) >= PageSize

\* Fault: the token opens the page in front of the others.
AppendToNewPageInFront(l) ==
  LET page == Last(freePages) IN
  /\ appending[l] # <<>> /\ NeedsPage(l) /\ freePages # <<>>
  /\ freePages' = Front(freePages)
  /\ allocated' = allocated + 1
  /\ pageTable' = [pageTable EXCEPT ![l] = <<page>> \o @]
  /\ pages' = [pages EXCEPT ![l][page] = <<Head(appending[l])>>]
  /\ seqLen' = [seqLen EXCEPT ![l] = @ + 1]
  /\ appending' = [appending EXCEPT ![l] = Tail(@)]

AppendToNewPage(l) ==
  LET page == Last(freePages) IN
  /\ appending[l] # <<>> /\ NeedsPage(l) /\ freePages # <<>>
  /\ freePages' = Front(freePages)
  /\ allocated' = allocated + 1
  /\ pageTable' = [pageTable EXCEPT ![l] = Append(@, page)]
  /\ pages' = [pages EXCEPT ![l][page] = <<Head(appending[l])>>]
  /\ seqLen' = [seqLen EXCEPT ![l] = @ + 1]
  /\ appending' = [appending EXCEPT ![l] = Tail(@)]

AppendToLastPage(l) ==
  /\ appending[l] # <<>> /\ ~NeedsPage(l)
  /\ pages' = [pages EXCEPT ![l][LastPage(l)] = Append(@, Head(appending[l]))]
  /\ seqLen' = [seqLen EXCEPT ![l] = @ + 1]
  /\ appending' = [appending EXCEPT ![l] = Tail(@)]
  /\ UNCHANGED <<pool, pageTable>>

\* "page pool exhausted": append returns, the tokens stored before stay.
PoolExhausted(l) ==
  /\ appending[l] # <<>> /\ NeedsPage(l) /\ freePages = <<>>
  /\ appending' = [appending EXCEPT ![l] = <<>>]
  /\ UNCHANGED <<pool, pageTable, pages, seqLen>>

\* Fault: the last page of the table is not given back.
ClearKeepsLast(l) ==
  /\ appending[l] = <<>>
  /\ pageTable' = [pageTable EXCEPT ![l] = <<>>]
  /\ freePages' = IF pageTable[l] = <<>> THEN freePages ELSE freePages \o Front(pageTable[l])
  /\ allocated' = allocated - Len(pageTable[l])
  /\ pages' = [pages EXCEPT ![l] = NoPages]
  /\ seqLen' = [seqLen EXCEPT ![l] = 0]
  /\ UNCHANGED appending

\* The pool is locked once for all pages of the layer.
Clear(l) ==
  /\ appending[l] = <<>>
  /\ pageTable' = [pageTable EXCEPT ![l] = <<>>]
  /\ freePages' = freePages \o pageTable[l]
  /\ allocated' = allocated - Len(pageTable[l])
  /\ pages' = [pages EXCEPT ![l] = NoPages]
  /\ seqLen' = [seqLen EXCEPT ![l] = 0]
  /\ UNCHANGED appending

KvNext ==
  \E l \in Layers :
    \/ \E tokens \in SeqOf(Tokens, MaxAppend) : BeginAppend(l, tokens)
    \/ AppendToNewPage(l) \/ AppendToLastPage(l) \/ PoolExhausted(l)
    \/ Clear(l)

KvSpec == KvInit /\ [][KvNext]_kvVars

-----------------------------------------------------------------------------
KvTypeOK ==
  /\ freePages \in Seq(PageIds)
  /\ allocated \in Nat
  /\ pageTable \in [Layers -> Seq(PageIds)]
  /\ pages \in [Layers -> [PageIds -> Seq(Tokens)]]
  /\ seqLen \in [Layers -> Nat]
  /\ appending \in [Layers -> Seq(Tokens)]

\* Every page is free or in the table of one layer, once, also after an append
\* that ran out of pages half way; and the pool's counters agree.
PagesAccounted ==
  LET inTables == MapThenSumSet(LAMBDA l : Len(pageTable[l]), Layers) IN
  /\ ToSet(freePages) \cup UNION {ToSet(pageTable[l]) : l \in Layers} = PageIds
  /\ Len(freePages) + inTables = MaxPages
  /\ allocated = inTables

Joined(parts) ==
  LET upTo[i \in 0..Len(parts)] == IF i = 0 THEN <<>> ELSE upTo[i - 1] \o parts[i]
  IN  upTo[Len(parts)]

\* What key() and value() return: the pages in the order of the table.
Cached(l) == Joined([i \in DOMAIN pageTable[l] |-> pages[l][pageTable[l][i]]])

Log == INSTANCE TokenLog WITH log <- [l \in Layers |-> Cached(l)]

\* The pages of a layer read back, in the order of its table, are the tokens
\* appended to it, whatever pages the pool reuses for the other layers.
ImplementsLog == Log!Spec
=============================================================================
