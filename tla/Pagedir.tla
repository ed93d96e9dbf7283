------------------------------ MODULE Pagedir ------------------------------
(***************************************************************************)
(* userprog/pagedir.c: the page directories of processes, with the CPU's   *)
(* translation buffer (TLB), which caches page table entries until CR3 is  *)
(* loaded.  Threads switch at any time; eviction looks at and changes      *)
(* another process's entries.                                              *)
(***************************************************************************)
EXTENDS Naturals, Kernel

CONSTANTS Thread, UPages, PerTable,
          KPage      \* pages of memory, numbered

ASSUME PagedirAssumption == KPage \subseteq Nat /\ NULL \notin KPage

VARIABLES current,
          pagedir,   \* [Thread -> page of the thread's page directory or NULL]
          exiting,   \* [Thread -> how far process_exit is: [at, pd]]
          pde,       \* [Thread -> [page table numbers -> its page or NULL]]
          pte,       \* [Thread -> [UPages -> [p, kpage, a, d]]]
          cr3,       \* the active directory's page; NULL is init_page_dir
          tlb,       \* cached entries: [some of UPages -> [kpage, d]]
          free_pages,      \* free pages of memory
          used,      \* <<thread, page>> used since installed or marked unused
          written    \* the same for writing
pagedirVars == <<current, pagedir, exiting, pde, pte, cr3, tlb, free_pages, used, written>>

TableOf(u) == u \div PerTable
Tables == {TableOf(u) : u \in UPages}
Zero == [p |-> FALSE, kpage |-> NULL, a |-> FALSE, d |-> FALSE]
NoTlb == [u \in {} |-> Zero]
Lowest(S) == CHOOSE k \in S : \A j \in S : k <= j
NotExiting == [at |-> "no", pd |-> NULL]

PagedirInit ==
  /\ current \in Thread
  /\ pagedir = [t \in Thread |-> NULL] /\ exiting = [t \in Thread |-> NotExiting]
  /\ pde = [t \in Thread |-> [n \in Tables |-> NULL]] /\ pte = [t \in Thread |-> [u \in UPages |-> Zero]]
  /\ cr3 = NULL /\ tlb = NoTlb /\ free_pages = KPage /\ used = {} /\ written = {}

\* Loading CR3 empties the TLB.
pagedir_activate(pd) == cr3' = pd /\ tlb' = NoTlb

invalidate_pagedir(pd) == IF cr3 = pd THEN pagedir_activate(pd) ELSE UNCHANGED <<cr3, tlb>>

\* process_activate on the thread switched to.
process_activate(t) == pagedir_activate(pagedir[t])

Switch(t) ==
  /\ t # current /\ current' = t
  /\ process_activate(t)
  /\ UNCHANGED <<pagedir, exiting, pde, pte, free_pages, used, written>>

\* load(): t->pagedir = pagedir_create (), then process_activate.
pagedir_create ==
  /\ pagedir[current] = NULL /\ exiting[current] = NotExiting /\ free_pages # {}
  /\ pagedir' = [pagedir EXCEPT ![current] = Lowest(free_pages)] /\ free_pages' = free_pages \ {Lowest(free_pages)}
  /\ pagedir_activate(Lowest(free_pages))
  /\ UNCHANGED <<current, exiting, pde, pte, used, written>>

pagedir_get_page(t, u) == pde[t][TableOf(u)] # NULL /\ pte[t][u].p

\* lookup_page with create: the page table of u is there, or is taken from the
\* pages in pool.
lookup_page(t, u, pool) ==
  IF pde[t][TableOf(u)] # NULL THEN UNCHANGED pde /\ free_pages' = pool
  ELSE /\ pool # {}
       /\ pde' = [pde EXCEPT ![t][TableOf(u)] = Lowest(pool)] /\ free_pages' = pool \ {Lowest(pool)}

\* install_page with a frame just taken: pagedir_set_page (when there is no
\* page table the frame is given back and nothing has changed).
pagedir_set_page(u) ==
  /\ pagedir[current] # NULL /\ ~pagedir_get_page(current, u) /\ free_pages # {}
  /\ lookup_page(current, u, free_pages \ {Lowest(free_pages)})
  /\ pte' = [pte EXCEPT ![current][u] = [p |-> TRUE, kpage |-> Lowest(free_pages), a |-> FALSE, d |-> FALSE]]
  /\ used' = used \ {<<current, u>>} /\ written' = written \ {<<current, u>>}
  /\ UNCHANGED <<current, pagedir, exiting, cr3, tlb>>

\* pagedir_clear_page, after which its caller can free the frame.
pagedir_clear_page(t, u) ==
  /\ pagedir[t] # NULL /\ pagedir_get_page(t, u)
  /\ pte' = [pte EXCEPT ![t][u].p = FALSE] /\ free_pages' = free_pages \cup {pte[t][u].kpage}
  /\ invalidate_pagedir(pagedir[t])
  /\ UNCHANGED <<current, pagedir, exiting, pde, used, written>>

\* pagedir_set_accessed: marking a page unused starts a new period.
pagedir_set_accessed(t, u, accessed) ==
  /\ pagedir[t] # NULL /\ pde[t][TableOf(u)] # NULL
  /\ pte' = [pte EXCEPT ![t][u].a = accessed]
  /\ IF accessed THEN UNCHANGED <<cr3, tlb, used>>
     ELSE invalidate_pagedir(pagedir[t]) /\ used' = used \ {<<t, u>>}
  /\ UNCHANGED <<current, pagedir, exiting, pde, free_pages, written>>

pagedir_set_dirty(t, u, dirty) ==
  /\ pagedir[t] # NULL /\ pde[t][TableOf(u)] # NULL
  /\ pte' = [pte EXCEPT ![t][u].d = dirty]
  /\ IF dirty THEN UNCHANGED <<cr3, tlb, written>>
     ELSE invalidate_pagedir(pagedir[t]) /\ written' = written \ {<<t, u>>}
  /\ UNCHANGED <<current, pagedir, exiting, pde, free_pages, used>>

\* The CPU: the current process reads or writes a page.  A cached entry is not
\* looked up again, but for the first write through it.
Access(u, write) ==
  /\ pagedir[current] # NULL
  /\ IF u \in DOMAIN tlb /\ (write => tlb[u].d) THEN UNCHANGED <<pte, tlb>>
     ELSE /\ pagedir_get_page(current, u)
          /\ LET d == write \/ pte[current][u].d
             IN /\ pte' = [pte EXCEPT ![current][u] = [@ EXCEPT !.a = TRUE, !.d = d]]
                /\ tlb' = [v \in DOMAIN tlb \cup {u} |-> IF v = u THEN [kpage |-> pte[current][u].kpage, d |-> d] ELSE tlb[v]]
  /\ used' = used \cup {<<current, u>>}
  /\ written' = IF write THEN written \cup {<<current, u>>} ELSE written
  /\ UNCHANGED <<current, pagedir, exiting, pde, cr3, free_pages>>

\* Mutant: cur->pagedir is still set while the directory is taken down.
ForgetPagedirLate ==
  /\ pagedir[current] # NULL /\ exiting[current] = NotExiting
  /\ exiting' = [exiting EXCEPT ![current] = [at |-> "forgot", pd |-> pagedir[current]]]
  /\ UNCHANGED <<current, pagedir, pde, pte, cr3, tlb, free_pages, used, written>>

\* process_exit, first step.
ForgetPagedir ==
  /\ pagedir[current] # NULL /\ exiting[current] = NotExiting
  /\ pagedir' = [pagedir EXCEPT ![current] = NULL]
  /\ exiting' = [exiting EXCEPT ![current] = [at |-> "forgot", pd |-> pagedir[current]]]
  /\ UNCHANGED <<current, pde, pte, cr3, tlb, free_pages, used, written>>

\* process_exit, second step: pagedir_activate (NULL).
LeavePagedir ==
  /\ exiting[current].at = "forgot"
  /\ exiting' = [exiting EXCEPT ![current].at = "left"]
  /\ pagedir_activate(NULL)
  /\ UNCHANGED <<current, pagedir, pde, pte, free_pages, used, written>>

\* The pages pagedir_destroy frees but the directory itself.
Owned(t) ==
  {pte[t][u].kpage : u \in {v \in UPages : pagedir_get_page(t, v)}}
    \cup ({pde[t][n] : n \in Tables} \ {NULL})

\* process_exit, third step.
pagedir_destroy ==
  /\ exiting[current].at = "left"
  /\ free_pages' = free_pages \cup Owned(current) \cup {exiting[current].pd}
  /\ pde' = [pde EXCEPT ![current] = [n \in Tables |-> NULL]]
  /\ pte' = [pte EXCEPT ![current] = [u \in UPages |-> Zero]]
  /\ exiting' = [exiting EXCEPT ![current] = NotExiting]
  /\ used' = {x \in used : x[1] # current} /\ written' = {x \in written : x[1] # current}
  /\ UNCHANGED <<current, pagedir, cr3, tlb>>

PagedirNext ==
  \/ \E t \in Thread : Switch(t)
  \/ pagedir_create \/ ForgetPagedir \/ LeavePagedir \/ pagedir_destroy
  \/ \E u \in UPages : pagedir_set_page(u)
  \/ \E t \in Thread, u \in UPages : pagedir_clear_page(t, u)
  \/ \E t \in Thread, u \in UPages, b \in BOOLEAN : pagedir_set_accessed(t, u, b) \/ pagedir_set_dirty(t, u, b)
  \/ \E u \in UPages, write \in BOOLEAN : Access(u, write)

PagedirSpec == PagedirInit /\ [][PagedirNext]_pagedirVars
-----------------------------------------------------------------------------
\* The TLB never translates to anything but what the active page directory
\* says, whoever changed the entry, and the active directory is never one
\* that has been freed (the order process_exit calls crucial).
TranslationsCurrent ==
  /\ cr3 # NULL => cr3 \notin free_pages
  /\ \A u \in DOMAIN tlb : \E t \in Thread :
       /\ cr3 \in {pagedir[t], exiting[t].pd}
       /\ pagedir_get_page(t, u) /\ pte[t][u].kpage = tlb[u].kpage /\ pte[t][u].kpage \notin free_pages

\* pagedir_is_accessed and pagedir_is_dirty: a page used, or written, since its
\* entry was installed or the bit was last cleared is reported as such.
BitsTell ==
  /\ \A x \in used : pte[x[1]][x[2]].a
  /\ \A x \in written : pte[x[1]][x[2]].d

\* What a page is used as: the page directory, a page table or a mapped page of
\* which thread.
UsedAs(k) ==
  {<<"directory", t, 0>> : t \in {x \in Thread : k \in {pagedir[x], exiting[x].pd}}}
    \cup {<<"table", x[1], x[2]>> : x \in {y \in Thread \X Tables : pde[y[1]][y[2]] = k}}
    \cup {<<"frame", x[1], x[2]>> :
            x \in {y \in Thread \X UPages : pagedir_get_page(y[1], y[2]) /\ pte[y[1]][y[2]].kpage = k}}

\* Every page is free, or a page directory, or a page table or mapped page of
\* one, and only one of these.
PagesOwnedOnce ==
  \A k \in KPage :
    /\ k \in free_pages <=> UsedAs(k) = {}
    /\ \A x, y \in UsedAs(k) : x = y

\* pagedir.c: the TLB follows the page tables, the accessed and dirty bits tell
\* the truth, and every page has one owner.
PageTablesSound == TranslationsCurrent /\ BitsTell /\ PagesOwnedOnce
=============================================================================
