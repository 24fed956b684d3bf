---------------------------- MODULE HistoryPages -----------------------------
(***************************************************************************)
(* A stack's update history as getStackUpdates serves it, one page per     *)
(* request.  pageWindow turns the ?page and ?pageSize parameters, which    *)
(* clients may leave out, into a window start..end-1 over the total items, *)
(* in the machine's int arithmetic.  A client asks for pages in any order. *)
(***************************************************************************)
EXTENDS Integers, FiniteSets

CONSTANTS
  Half,          \* an int is in -Half .. Half-1 (2^63 in the code)
  MaxPageSize,   \* the largest accepted page size (1000 in the code)
  Totals,        \* lengths of the history
  PageParams,    \* values of ?page
  SizeParams,    \* values of ?pageSize
  Absent         \* a parameter that is not given

Ints == -Half .. (Half - 1)

\* A history's items and a page fit in an int together.
ASSUME IntAssumption ==
  /\ Half \in Nat \ {0} /\ MaxPageSize \in Nat
  /\ \A t \in Totals : t \in Nat /\ t + t < Half /\ t + MaxPageSize < Half
  /\ PageParams \subseteq Ints \cup {Absent}
  /\ SizeParams \subseteq Ints \cup {Absent}

VARIABLES
  total,    \* the number of updates in the history
  size,     \* the client's ?pageSize
  windows   \* the answers it has: page, start and end

vars == <<total, size, windows>>

\* int arithmetic
Wrap(i) == ((i + Half) % (2 * Half)) - Half

AtMost(a, b) == IF a <= b THEN a ELSE b

\* Which parameters are answered with a page and not with a 400.
ValidPage(p) == p # Absent => p >= 1
ValidSize(s) == s # Absent => 0 <= s /\ s <= MaxPageSize

Page(p) == IF p = Absent THEN 1 ELSE p
PageSize(s) == IF s = Absent \/ s = 0 THEN total ELSE s

\* StartOf without the test that keeps the product in range.
StartUnguarded(p, s) == AtMost(Wrap((p - 1) * s), total)

\* StartOf with pages counted from zero.
StartZeroBased(p, s) ==
  IF p <= total \div s THEN AtMost(Wrap(p * s), total) ELSE total

StartOf(p, s) ==
  IF p - 1 <= total \div s THEN AtMost(Wrap((p - 1) * s), total) ELSE total

\* pageWindow
PageWindow(p, s) ==
  IF total = 0 THEN [page |-> p, start |-> 0, end |-> 0]
  ELSE LET start == StartOf(p, s)
       IN  [page |-> p, start |-> start, end |-> AtMost(Wrap(start + s), total)]

Init ==
  /\ total \in Totals
  /\ size \in SizeParams
  /\ windows = {}

\* getStackUpdates with valid parameters; other parameters change nothing.
GetPage(p) ==
  /\ ValidPage(p) /\ ValidSize(size)
  /\ windows' = windows \cup {PageWindow(Page(p), PageSize(size))}
  /\ UNCHANGED <<total, size>>

BadRequest(p) ==
  /\ ~(ValidPage(p) /\ ValidSize(size))
  /\ UNCHANGED vars

Next == \E p \in PageParams : GetPage(p) \/ BadRequest(p)

Spec == Init /\ [][Next]_vars

------------------------------------------------------------------------------

\* Every window is a slice of the history: updates[start:end] cannot panic,
\* however large the page number is.
SliceInRange ==
  \A w \in windows : 0 <= w.start /\ w.start <= w.end /\ w.end <= total

\* Pages tile the history: a later page starts no earlier than where an earlier
\* one ended, and a client that has all pages up to one that is not full has
\* every update, none of them twice.
PagesTile ==
  /\ \A v, w \in windows : v.page < w.page => v.end <= w.start
  /\ \A w \in windows :
       /\ w.end - w.start < PageSize(size)
       /\ 1 .. w.page \subseteq {v.page : v \in windows}
       => UNION {v.start .. (v.end - 1) : v \in windows} = 0 .. (total - 1)
==============================================================================
