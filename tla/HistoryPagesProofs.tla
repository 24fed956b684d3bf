------------------------- MODULE HistoryPagesProofs --------------------------
(***************************************************************************)
(* pageWindow, for any width of int, any history and any page parameters:  *)
(* no product or sum in it wraps round, so a window is what it would be    *)
(* with unbounded integers, and from that the windows are slices that tile *)
(* the history.                                                            *)
(***************************************************************************)
EXTENDS HistoryPages, TLAPS

------------------------------------------------------------------------------
(* Arithmetic *)

\* The quotient of the division that guards pageWindow's product.
LEMMA Division ==
  ASSUME NEW b \in Nat, NEW s \in Nat, s > 0
  PROVE  (b \div s) \in Nat /\ (b \div s) * s <= b /\ b < (b \div s) * s + s
OBVIOUS

\* Larger page numbers start no earlier.
LEMMA TimesMonotone ==
  ASSUME NEW a \in Nat, NEW b \in Nat, NEW s \in Nat, a <= b
  PROVE  a * s \in Nat /\ b * s \in Nat /\ a * s <= b * s
OBVIOUS

\* A page starts where the one before it ends.
LEMMA TimesNext ==
  ASSUME NEW a \in Nat, NEW s \in Nat
  PROVE  (a + 1) * s = a * s + s
OBVIOUS

\* An int below 2^(w-1) is what it is.
LEMMA NoWrap ==
  ASSUME NEW i \in Nat, i < Half
  PROVE  Wrap(i) = i
BY IntAssumption DEF Wrap

------------------------------------------------------------------------------
(* The window of a page *)

\* Where page p of size s starts and ends in the history, without wrapping.
LEMMA WindowOf ==
  ASSUME total \in Nat, total > 0, total + total < Half, total + MaxPageSize < Half,
         NEW p \in Nat, p >= 1, NEW s \in Nat, s > 0, s <= total \/ s <= MaxPageSize
  PROVE  /\ PageWindow(p, s).page = p
         /\ PageWindow(p, s).start = AtMost((p - 1) * s, total)
         /\ PageWindow(p, s).end = AtMost(p * s, total)
<1> DEFINE before == (p - 1) * s
           q == total \div s
           start == StartOf(p, s)
<1>1. p - 1 \in Nat /\ before \in Nat /\ p * s = before + s /\ p * s \in Nat
  BY TimesMonotone, TimesNext
<1>2. q \in Nat /\ q * s \in Nat /\ q * s <= total /\ total < q * s + s
  BY Division, TimesMonotone
<1>3. start = AtMost(before, total)
  <2>1. CASE p - 1 <= q
    <3>1. before <= q * s
      BY <1>1, <1>2, <2>1, TimesMonotone
    <3>2. before <= total /\ before < Half
      BY <1>1, <1>2, <3>1, IntAssumption
    <3> QED
      BY <1>1, <2>1, <3>2, NoWrap DEF StartOf
  <2>2. CASE ~(p - 1 <= q)
    <3>1. q + 1 <= p - 1
      BY <1>1, <1>2, <2>2
    <3>2. (q + 1) * s <= before /\ (q + 1) * s = q * s + s
      BY <1>1, <1>2, <3>1, TimesMonotone, TimesNext
    <3>3. total < before
      BY <1>1, <1>2, <3>2
    <3> QED
      BY <1>1, <2>2, <3>3 DEF StartOf, AtMost
  <2> QED
    BY <2>1, <2>2
<1>4. start \in Nat /\ start <= total
  BY <1>1, <1>3 DEF AtMost
<1> HIDE DEF start
<1>5. AtMost(Wrap(start + s), total) = AtMost(p * s, total)
  <2>1. start + s \in Nat /\ start + s < Half
    BY <1>4, IntAssumption
  <2>2. Wrap(start + s) = start + s
    BY <2>1, NoWrap
  <2>3. CASE before <= total
    BY <1>1, <1>3, <2>2, <2>3 DEF AtMost
  <2>4. CASE ~(before <= total)
    BY <1>1, <1>3, <2>2, <2>4 DEF AtMost
  <2> QED
    BY <2>3, <2>4
<1>6. PageWindow(p, s) = [page |-> p, start |-> start, end |-> AtMost(Wrap(start + s), total)]
  BY DEF PageWindow, start
<1> QED
  BY <1>3, <1>5, <1>6

------------------------------------------------------------------------------
(* The inductive invariant: a client's windows are the windows of pages. *)

Sized ==
  LET s == PageSize(size)
  IN  s \in Nat /\ (s <= total \/ s <= MaxPageSize) /\ (total > 0 => s > 0)

Answered(w) == w.page \in Nat /\ w.page >= 1 /\ w = PageWindow(w.page, PageSize(size))

IndInv ==
  /\ total \in Totals /\ size \in SizeParams
  /\ windows # {} => Sized
  /\ \A w \in windows : Answered(w)

\* IndInv holds at the start and every request keeps it.
LEMMA IndInvInductive == (Init => IndInv) /\ (IndInv /\ [Next]_vars => IndInv')
<1>1. Init => IndInv
  BY DEF Init, IndInv
<1>2. ASSUME IndInv, NEW p \in PageParams, GetPage(p) PROVE IndInv'
  <2> DEFINE w == PageWindow(Page(p), PageSize(size))
  <2>1. Page(p) \in Nat /\ Page(p) >= 1
    BY <1>2, IntAssumption DEF GetPage, ValidPage, Page, Ints
  <2>2. total \in Nat
    BY <1>2, IntAssumption DEF IndInv
  <2>3. Sized
    BY <1>2, <2>2, IntAssumption DEF IndInv, GetPage, ValidSize, PageSize, Ints, Sized
  <2>4. w.page = Page(p)
    BY DEF PageWindow
  <2>5. Answered(w)
    BY <2>1, <2>4 DEF Answered
  <2>6. \A v \in windows' : Answered(v)
    BY <1>2, <2>5 DEF GetPage, IndInv
  <2> QED
    BY <1>2, <2>3, <2>6
    DEF GetPage, IndInv, Answered, Sized, PageSize, PageWindow, StartOf
<1>3. IndInv /\ UNCHANGED vars => IndInv'
  BY DEF IndInv, vars, Answered, Sized, PageSize, PageWindow, StartOf
<1> QED
  BY <1>1, <1>2, <1>3 DEF Next, BadRequest

\* What the invariant says of one window.
LEMMA Slice ==
  ASSUME IndInv, NEW w \in windows, total > 0
  PROVE  LET s == PageSize(size)
         IN  /\ total \in Nat /\ s \in Nat /\ s > 0 /\ w.page \in Nat /\ w.page >= 1
             /\ (w.page - 1) * s \in Nat /\ w.page * s = (w.page - 1) * s + s
             /\ w.start = AtMost((w.page - 1) * s, total)
             /\ w.end = AtMost(w.page * s, total)
<1>1. Sized /\ Answered(w) /\ total \in Totals
  BY DEF IndInv
<1>2. total \in Nat /\ total + total < Half /\ total + MaxPageSize < Half
  BY <1>1, IntAssumption
<1>3. w.page - 1 \in Nat
  BY <1>1 DEF Answered
<1> QED
  BY <1>1, <1>2, <1>3, WindowOf, TimesMonotone, TimesNext DEF Sized, Answered

\* The windows of an empty history are empty.
LEMMA EmptyHistory ==
  ASSUME IndInv, NEW w \in windows, ~(total > 0)
  PROVE  total = 0 /\ w.start = 0 /\ w.end = 0
<1>1. total = 0
  BY IntAssumption DEF IndInv
<1> QED
  BY <1>1 DEF IndInv, Answered, PageWindow

\* Windows that were computed from the history are slices of it.
LEMMA SlicesOK == IndInv => SliceInRange
<1> SUFFICES ASSUME IndInv, NEW w \in windows
             PROVE  0 <= w.start /\ w.start <= w.end /\ w.end <= total
  BY DEF SliceInRange
<1>1. CASE total > 0
  BY <1>1, Slice DEF AtMost
<1>2. CASE ~(total > 0)
  BY <1>2, EmptyHistory
<1> QED
  BY <1>1, <1>2

\* Windows of one size that were computed from one history tile it.
LEMMA TilesOK == IndInv => PagesTile
<1> SUFFICES ASSUME IndInv PROVE PagesTile
  OBVIOUS
<1> DEFINE s == PageSize(size)
<1>1. ASSUME NEW v \in windows, NEW w \in windows, v.page < w.page
      PROVE  v.end <= w.start
  <2>1. CASE total > 0
    <3>1. v.page <= w.page - 1 /\ v.page \in Nat /\ w.page - 1 \in Nat /\ s \in Nat
      BY <1>1, <2>1, Slice
    <3>2. v.page * s <= (w.page - 1) * s
      BY <3>1, TimesMonotone
    <3> QED
      BY <2>1, <3>1, <3>2, Slice DEF AtMost
  <2>2. CASE ~(total > 0)
    BY <2>2, EmptyHistory
  <2> QED
    BY <2>1, <2>2
<1>2. ASSUME NEW w \in windows, w.end - w.start < s,
             1 .. w.page \subseteq {v.page : v \in windows}
      PROVE  UNION {v.start .. (v.end - 1) : v \in windows} = 0 .. (total - 1)
  <2>1. ASSUME NEW i \in UNION {v.start .. (v.end - 1) : v \in windows}
        PROVE  i \in 0 .. (total - 1)
    <3>1. PICK v \in windows : i \in v.start .. (v.end - 1)
      BY <2>1
    <3>2. CASE total > 0
      BY <3>1, <3>2, Slice DEF AtMost
    <3>3. CASE ~(total > 0)
      BY <3>1, <3>3, EmptyHistory
    <3> QED
      BY <3>2, <3>3
  <2>2. ASSUME NEW i \in 0 .. (total - 1)
        PROVE  \E v \in windows : i \in v.start .. (v.end - 1)
    <3> DEFINE q == i \div s
    <3>1. total \in Nat
      BY IntAssumption DEF IndInv
    <3>2. total > 0 /\ i \in Nat /\ i < total
      BY <2>2, <3>1
    <3>3. s \in Nat /\ s > 0 /\ w.page \in Nat /\ w.page * s \in Nat /\ total < w.page * s
      BY <1>2, <3>1, <3>2, Slice DEF AtMost
    <3>4. q \in Nat /\ q * s \in Nat /\ q * s <= i /\ i < q * s + s
      BY <3>2, <3>3, Division, TimesMonotone
    <3>5. q + 1 <= w.page
      <4>1. CASE w.page <= q
        <5>1. w.page * s <= q * s
          BY <3>3, <3>4, <4>1, TimesMonotone
        <5> QED
          BY <3>1, <3>2, <3>3, <3>4, <5>1
      <4> QED
        BY <3>3, <3>4, <4>1
    <3>6. q + 1 \in 1 .. w.page
      BY <3>3, <3>4, <3>5
    <3>7. PICK v \in windows : v.page = q + 1
      BY <1>2, <3>6
    <3>8. (v.page - 1) * s = q * s /\ v.page * s = q * s + s
      BY <3>3, <3>4, <3>7, TimesNext
    <3>9. v.start = AtMost(q * s, total) /\ v.end = AtMost(q * s + s, total)
      BY <3>2, <3>8, Slice
    <3>10. i \in v.start .. (v.end - 1)
      BY <3>1, <3>2, <3>3, <3>4, <3>9 DEF AtMost
    <3> QED
      BY <3>10
  <2> QED
    BY <2>1, <2>2
<1> QED
  BY <1>1, <1>2 DEF PagesTile

\* updates[start:end] cannot panic, for any page number that fits in an int.
THEOREM NoSlicePanic == Spec => []SliceInRange
BY IndInvInductive, SlicesOK, PTL DEF Spec

\* The pages of any size tile a history of any length.
THEOREM Tiling == Spec => []PagesTile
BY IndInvInductive, TilesOK, PTL DEF Spec
==============================================================================
