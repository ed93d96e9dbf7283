SPECIFICATION MCSpec
CONSTANTS
  NULL = NULL
  \* Interrupt
  Thread = {t1, t2}
  Master = {timer}
  Slave = {ide}
  MaxDepth = 3
  \* Serial
  Writer = {w1, w2}
  LineLen = 3
  QueueMax = 2
  MaxNesting = 1
  \* Palloc
  Client = {a1, a2}
  page_cnt = 4
  \* List
  HEAD = HEAD
  TAIL = TAIL
  Elem = {e1, e2, e3, e4}
  BITMAP_ERROR = BITMAP_ERROR
INVARIANTS InterruptsSound ConsoleSound PagesAccounted ListWhole  HeapSound ListAlgorithmsRight StringsRight
PROPERTIES BitmapIsSet HashIsDict DivisionRight
