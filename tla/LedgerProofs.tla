---------------------------- MODULE LedgerProofs ----------------------------
(***************************************************************************)
(* Proofs about Ledger, for every set of workers, clients, products,       *)
(* stylists and requests, and any number of days.  The argument:           *)
(*                                                                         *)
(*   1. an inductive invariant of the concurrent system: the types, what   *)
(*      the transaction that holds the write lock has written so far, and  *)
(*      the balance of the open drawers;                                   *)
(*   2. from it, every step is a step of AtomicLedger or changes neither   *)
(*      the books nor the calendar;                                        *)
(*   3. what is proved of the steps of AtomicLedger then holds of Ledger.  *)
(*                                                                         *)
(* Sums come first: what the library's folds compute, by induction over    *)
(* the finite subsets of a set.  The library's induction theorems speak of *)
(* operators, which the provers cannot instantiate; well-foundedness       *)
(* speaks of sets, which they can.                                         *)
(***************************************************************************)
EXTENDS Ledger, SequenceTheorems, FiniteSetTheorems, WellFoundedInduction, TLAPS

AnySale == Sales \cup AutoSales

-----------------------------------------------------------------------------
(***************************************************************************)
(* Sums.                                                                   *)
(***************************************************************************)

\* An element of a set, the one the folds of the library take first.
Chosen(S) == CHOOSE x \in S : TRUE

\* What a sum over s is by a sum g over the smaller sets.
SumStep(f, g, s) == IF s = {} THEN 0 ELSE f[Chosen(s)] + g[s \ {Chosen(s)}]

\* g sums f over every subset of S.
IsSum(f, g, S) == g = [s \in SUBSET S |-> SumStep(f, g, s)]

\* What holds of a subset if it holds of all smaller ones holds of a finite set.
LEMMA SubsetInduction ==
    ASSUME NEW S, IsFiniteSet(S), NEW Good,
           \A T \in SUBSET S : (\A U \in SUBSET T : U # T => U \in Good) => T \in Good
    PROVE  S \in Good
<1> SUFFICES ASSUME S \notin Good PROVE FALSE
  OBVIOUS
<1> DEFINE Bad == {T \in SUBSET S : T \notin Good}
<1>1. IsWellFoundedOn(StrictSubsetOrdering(S), SUBSET S)
  <2>1. FiniteSubsetsOf(S) = SUBSET S
    BY FS_FiniteSubsetsOfFinite
  <2>2. IsWellFoundedOn(StrictSubsetOrdering(S), FiniteSubsetsOf(S))
    BY FS_StrictSubsetOrderingWellFounded
  <2> QED
    BY <2>1, <2>2
<1>2. Bad \subseteq SUBSET S /\ Bad # {}
  OBVIOUS
<1>3. PICK T \in Bad : \A U \in Bad : ~ (<<U, T>> \in StrictSubsetOrdering(S))
  <2> HIDE DEF Bad
  <2> QED
    BY <1>1, <1>2, WFMin
<1>4. \A U \in SUBSET T : U # T => U \in Good
  BY <1>3 DEF StrictSubsetOrdering
<1> QED
  BY <1>3, <1>4

\* It is an element, if there is one.
LEMMA ChosenIn ==
    ASSUME NEW S, S # {}
    PROVE  Chosen(S) \in S
  BY DEF Chosen

\* There is one such sum, over however large a set it is taken.
LEMMA SumUnique ==
    ASSUME NEW S, IsFiniteSet(S), NEW T, NEW f, NEW g, NEW h,
           IsSum(f, g, S), IsSum(f, h, T), S \subseteq T
    PROVE  g[S] = h[S]
<1> DEFINE Good == {s \in SUBSET S : g[s] = h[s]}
<1>1. ASSUME NEW s \in SUBSET S, \A r \in SUBSET s : r # s => r \in Good
      PROVE  s \in Good
  <2> DEFINE r == s \ {Chosen(s)}
  <2>1. g[s] = SumStep(f, g, s) /\ h[s] = SumStep(f, h, s)
    BY DEF IsSum
  <2>2. CASE s = {}
    BY <2>1, <2>2 DEF SumStep
  <2>3. CASE s # {}
    <3>1. g[r] = h[r]
      BY <1>1, <2>3, ChosenIn
    <3> QED
      BY <2>1, <2>3, <3>1 DEF SumStep
  <2> QED
    BY <2>2, <2>3
<1>2. S \in Good
  <2> HIDE DEF Good
  <2> QED
    BY <1>1, SubsetInduction
<1> QED
  BY <1>2

\* There is one.
LEMMA SumExists ==
    ASSUME NEW S, IsFiniteSet(S), NEW f
    PROVE  \E g : IsSum(f, g, S)
<1> DEFINE Good == {T \in SUBSET S : \E g : IsSum(f, g, T)}
<1>1. ASSUME NEW T \in SUBSET S, \A U \in SUBSET T : U # T => U \in Good
      PROVE  T \in Good
  <2> DEFINE G(U) == CHOOSE g : IsSum(f, g, U)
             r == T \ {Chosen(T)}
             h == [s \in SUBSET T |-> IF s = T
                                      THEN IF T = {} THEN 0 ELSE f[Chosen(T)] + G(r)[r]
                                      ELSE G(s)[s]]
  <2>1. ASSUME NEW U \in SUBSET T, U # T
        PROVE  IsSum(f, G(U), U)
    <3>1. \E g : IsSum(f, g, U)
      BY <1>1, <2>1
    <3> QED
      BY <3>1
  <2> HIDE DEF G
  <2>2. T # {} => r \in SUBSET T /\ r # T
    BY ChosenIn
  <2>3. ASSUME NEW s \in SUBSET T
        PROVE  h[s] = SumStep(f, h, s)
    <3>1. CASE s = T
      BY <3>1, <2>2 DEF SumStep
    <3>2. CASE s # T /\ s = {}
      <4>1. IsSum(f, G(s), s)
        BY <3>2, <2>1
      <4>2. h[s] = SumStep(f, G(s), s)
        BY <3>2, <4>1 DEF IsSum
      <4> QED
        BY <3>2, <4>2 DEF SumStep
    <3>3. CASE s # T /\ s # {}
      <4> DEFINE q == s \ {Chosen(s)}
      <4>1. IsSum(f, G(s), s)
        BY <3>3, <2>1
      <4>2. h[s] = SumStep(f, G(s), s)
        BY <3>3, <4>1 DEF IsSum
      <4>3. q \in SUBSET s /\ q # s /\ q \in SUBSET T /\ q # T
        BY <3>3, ChosenIn
      <4>4. IsSum(f, G(q), q)
        BY <4>3, <2>1
      <4>5. IsFiniteSet(q)
        BY <4>3, FS_Subset
      <4>6. G(q)[q] = G(s)[q]
        BY <4>1, <4>3, <4>4, <4>5, SumUnique
      <4>7. h[q] = G(q)[q]
        BY <4>3
      <4> QED
        BY <3>3, <4>2, <4>6, <4>7 DEF SumStep
    <3> QED
      BY <3>1, <3>2, <3>3
  <2>4. IsSum(f, h, T)
    BY <2>3 DEF IsSum
  <2> QED
    BY <2>4
<1>2. S \in Good
  <2> HIDE DEF Good
  <2> QED
    BY <1>1, SubsetInduction
<1> QED
  BY <1>2

\* It is what the library computes.
LEMMA SumIsSum ==
    ASSUME NEW S, IsFiniteSet(S), NEW f
    PROVE  \E g : IsSum(f, g, S) /\ SumFunctionOnSet(f, S) = g[S]
<1> DEFINE k == CHOOSE i : IsSum(f, i, S)
<1>1. SumFunctionOnSet(f, S) = k[S]
  BY DEF SumFunctionOnSet, FoldFunctionOnSet, MapThenFoldSet, IsSum, SumStep, Chosen
<1>2. IsSum(f, k, S)
  BY SumExists
<1> QED
  BY <1>1, <1>2

\* A sum over a part is found on the way.
LEMMA SumOfPart ==
    ASSUME NEW S, IsFiniteSet(S), NEW f, NEW g, IsSum(f, g, S), NEW T \in SUBSET S
    PROVE  SumFunctionOnSet(f, T) = g[T]
<1>1. IsFiniteSet(T)
  BY FS_Subset
<1>2. PICK h : IsSum(f, h, T) /\ SumFunctionOnSet(f, T) = h[T]
  BY <1>1, SumIsSum
<1>3. g[T] = h[T]
  BY <1>1, <1>2, SumUnique
<1> QED
  BY <1>2, <1>3

\* No entries.
LEMMA SumEmpty == \A f : SumFunctionOnSet(f, {}) = 0
<1> TAKE f
<1>1. IsFiniteSet({})
  BY FS_EmptySet
<1>2. PICK g : IsSum(f, g, {}) /\ SumFunctionOnSet(f, {}) = g[{}]
  BY <1>1, SumIsSum
<1> QED
  BY <1>2 DEF IsSum, SumStep

\* The entry the library takes first.
LEMMA SumOfChosen ==
    ASSUME NEW S, IsFiniteSet(S), S # {}, NEW f
    PROVE  SumFunctionOnSet(f, S) =
               f[Chosen(S)] + SumFunctionOnSet(f, S \ {Chosen(S)})
<1>1. PICK g : IsSum(f, g, S) /\ SumFunctionOnSet(f, S) = g[S]
  BY SumIsSum
<1>2. SumFunctionOnSet(f, S \ {Chosen(S)}) = g[S \ {Chosen(S)}]
  BY <1>1, SumOfPart
<1> QED
  BY <1>1, <1>2 DEF IsSum, SumStep

\* Sums are whole numbers, and natural if the entries are.
LEMMA SumType ==
    ASSUME NEW S, IsFiniteSet(S), NEW f, NEW V, V \in {Nat, Int}, \A x \in S : f[x] \in V
    PROVE  SumFunctionOnSet(f, S) \in V
<1> DEFINE Good == {T \in SUBSET S : SumFunctionOnSet(f, T) \in V}
<1>1. ASSUME NEW T \in SUBSET S, \A U \in SUBSET T : U # T => U \in Good
      PROVE  T \in Good
  <2>1. CASE T = {}
    BY <2>1, SumEmpty
  <2>2. CASE T # {}
    <3>1. SumFunctionOnSet(f, T) = f[Chosen(T)] + SumFunctionOnSet(f, T \ {Chosen(T)})
      BY <2>2, FS_Subset, SumOfChosen
    <3>2. Chosen(T) \in T
      BY <2>2, ChosenIn
    <3>3. SumFunctionOnSet(f, T \ {Chosen(T)}) \in V
      BY <1>1, <3>2
    <3>4. f[Chosen(T)] \in V
      BY <3>2
    <3> QED
      BY <3>1, <3>3, <3>4
  <2> QED
    BY <2>1, <2>2
<1>2. S \in Good
  <2> HIDE DEF Good
  <2> QED
    BY <1>1, SubsetInduction
<1> QED
  BY <1>2

\* Equal entries have equal sums.
LEMMA SumSame ==
    ASSUME NEW S, IsFiniteSet(S), NEW f, NEW g, \A x \in S : f[x] = g[x]
    PROVE  SumFunctionOnSet(f, S) = SumFunctionOnSet(g, S)
<1> DEFINE Good == {T \in SUBSET S : SumFunctionOnSet(f, T) = SumFunctionOnSet(g, T)}
<1>1. ASSUME NEW T \in SUBSET S, \A U \in SUBSET T : U # T => U \in Good
      PROVE  T \in Good
  <2>1. CASE T = {}
    BY <2>1, SumEmpty
  <2>2. CASE T # {}
    <3> DEFINE c == Chosen(T)
    <3>1. /\ SumFunctionOnSet(f, T) = f[c] + SumFunctionOnSet(f, T \ {c})
          /\ SumFunctionOnSet(g, T) = g[c] + SumFunctionOnSet(g, T \ {c})
      BY <2>2, FS_Subset, SumOfChosen
    <3>2. c \in T
      BY <2>2, ChosenIn
    <3>3. SumFunctionOnSet(f, T \ {c}) = SumFunctionOnSet(g, T \ {c})
      BY <1>1, <3>2
    <3> QED
      BY <3>1, <3>2, <3>3
  <2> QED
    BY <2>1, <2>2
<1>2. S \in Good
  <2> HIDE DEF Good
  <2> QED
    BY <1>1, SubsetInduction
<1> QED
  BY <1>2

\* The order in which the elements are taken does not matter.
LEMMA SumWithout ==
    ASSUME NEW S, IsFiniteSet(S), NEW f, \A x \in S : f[x] \in Int, NEW a \in S
    PROVE  SumFunctionOnSet(f, S) = f[a] + SumFunctionOnSet(f, S \ {a})
<1> DEFINE Good == {T \in SUBSET S : \A x \in T :
                        SumFunctionOnSet(f, T) = f[x] + SumFunctionOnSet(f, T \ {x})}
<1>1. ASSUME NEW T \in SUBSET S, \A U \in SUBSET T : U # T => U \in Good
      PROVE  T \in Good
  <2> SUFFICES ASSUME NEW x \in T
               PROVE  SumFunctionOnSet(f, T) = f[x] + SumFunctionOnSet(f, T \ {x})
    OBVIOUS
  <2> DEFINE c == Chosen(T)
  <2>1. SumFunctionOnSet(f, T) = f[c] + SumFunctionOnSet(f, T \ {c})
    BY FS_Subset, SumOfChosen
  <2>2. c \in T
    BY ChosenIn
  <2>3. CASE x = c
    BY <2>1, <2>3
  <2>4. CASE x # c
    <3> HIDE DEF c
    <3>1. T \ {c} \in Good /\ T \ {x} \in Good
      BY <1>1, <2>2
    <3>2. SumFunctionOnSet(f, T \ {c}) = f[x] + SumFunctionOnSet(f, (T \ {c}) \ {x})
      BY <3>1, <2>4
    <3>3. SumFunctionOnSet(f, T \ {x}) = f[c] + SumFunctionOnSet(f, (T \ {x}) \ {c})
      BY <3>1, <2>2, <2>4
    <3>4. (T \ {c}) \ {x} = (T \ {x}) \ {c}
      OBVIOUS
    <3>5. IsFiniteSet((T \ {c}) \ {x})
      BY FS_Subset
    <3>6. SumFunctionOnSet(f, (T \ {c}) \ {x}) \in Int
      BY <3>5, SumType
    <3>7. f[x] \in Int /\ f[c] \in Int
      BY <2>2
    <3>8. SumFunctionOnSet(f, T \ {x}) = f[c] + SumFunctionOnSet(f, (T \ {c}) \ {x})
      BY <3>3, <3>4
    <3> QED
      BY <2>1, <3>2, <3>6, <3>7, <3>8
  <2> QED
    BY <2>3, <2>4
<1>2. S \in Good
  <2> HIDE DEF Good
  <2> QED
    BY <1>1, SubsetInduction
<1> QED
  BY <1>2

\* One entry more.
LEMMA SumAdd ==
    ASSUME NEW S, IsFiniteSet(S), NEW a, a \notin S,
           NEW f, \A x \in S \cup {a} : f[x] \in Int
    PROVE  SumFunctionOnSet(f, S \cup {a}) = f[a] + SumFunctionOnSet(f, S)
<1>1. IsFiniteSet(S \cup {a})
  BY FS_AddElement
<1>2. (S \cup {a}) \ {a} = S
  OBVIOUS
<1> QED
  BY <1>1, <1>2, SumWithout

\* One entry changed.
LEMMA SumChange ==
    ASSUME NEW S, IsFiniteSet(S), NEW a \in S,
           NEW f, \A x \in S : f[x] \in Int,
           NEW g, \A x \in S : g[x] \in Int,
           \A x \in S \ {a} : g[x] = f[x]
    PROVE  SumFunctionOnSet(g, S) = SumFunctionOnSet(f, S) + (g[a] - f[a])
<1>1. /\ SumFunctionOnSet(f, S) = f[a] + SumFunctionOnSet(f, S \ {a})
      /\ SumFunctionOnSet(g, S) = g[a] + SumFunctionOnSet(g, S \ {a})
  BY SumWithout
<1>2. IsFiniteSet(S \ {a})
  BY FS_Subset
<1>3. SumFunctionOnSet(f, S \ {a}) = SumFunctionOnSet(g, S \ {a})
  BY <1>2, SumSame
<1>4. SumFunctionOnSet(f, S \ {a}) \in Int
  BY <1>2, SumType
<1> QED
  BY <1>1, <1>3, <1>4

\* h names each element of S by one of T.
Renames(h, S, T) ==
    /\ T = {h[x] : x \in S}
    /\ \A x, y \in S : h[x] = h[y] => x = y

\* The same entries under other names.
LEMMA SumRenamed ==
    ASSUME NEW S, IsFiniteSet(S), NEW h, NEW R, Renames(h, S, R),
           NEW f, \A x \in S : f[x] \in Int, NEW g, \A x \in S : g[h[x]] = f[x]
    PROVE  SumFunctionOnSet(g, R) = SumFunctionOnSet(f, S)
<1> DEFINE Image(T) == {h[x] : x \in T}
           Good == {T \in SUBSET S :
                        SumFunctionOnSet(g, Image(T)) = SumFunctionOnSet(f, T)}
<1>1. ASSUME NEW T \in SUBSET S, \A U \in SUBSET T : U # T => U \in Good
      PROVE  T \in Good
  <2>1. CASE T = {}
    <3>1. Image(T) = {}
      BY <2>1
    <3> QED
      BY <2>1, <3>1, SumEmpty
  <2>2. CASE T # {}
    <3>1. PICK c \in T : TRUE
      BY <2>2
    <3> DEFINE r == T \ {c}
    <3>2. r \in Good
      BY <1>1
    <3>3. IsFiniteSet(T) /\ IsFiniteSet(r)
      BY FS_Subset
    <3>4. IsFiniteSet(Image(r))
      <4> DEFINE e == [x \in r |-> h[x]]
      <4>1. e \in Surjection(r, Image(r))
        BY DEF Surjection
      <4> QED
        BY <3>3, <4>1, FS_Surjection
    <3>5. Image(T) = Image(r) \cup {h[c]} /\ h[c] \notin Image(r)
      BY DEF Renames
    <3>6. \A y \in Image(T) : g[y] \in Int
      OBVIOUS
    <3>7. SumFunctionOnSet(g, Image(T)) = g[h[c]] + SumFunctionOnSet(g, Image(r))
      <4> HIDE DEF Image
      <4> QED
        BY <3>4, <3>5, <3>6, SumAdd
    <3>8. SumFunctionOnSet(f, T) = f[c] + SumFunctionOnSet(f, r)
      BY <3>3, SumWithout
    <3> QED
      BY <3>2, <3>7, <3>8
  <2> QED
    BY <2>1, <2>2
<1>2. S \in Good
  <2> HIDE DEF Good
  <2> QED
    BY <1>1, SubsetInduction
<1> QED
  BY <1>2 DEF Renames

\* The total of a cart and its units are amounts.
LEMMA CartSums ==
    ASSUME NEW sale \in AnySale
    PROVE  CartTotal(sale.cart) \in Nat /\ \A p : UnitsOf(sale.cart, p) \in Nat
<1> DEFINE cart == sale.cart
           prices == [i \in DOMAIN cart |-> cart[i].price * cart[i].qty]
           units == [i \in DOMAIN cart |-> cart[i].qty]
<1>1. cart \in Seq(CartLine)
  BY RequestAssumption DEF AnySale, Sale
<1>2. /\ DOMAIN cart = 1 .. Len(cart) /\ Len(cart) \in Nat
      /\ \A i \in DOMAIN cart : cart[i].price \in Nat /\ cart[i].qty \in Nat
  <2> HIDE DEF cart
  <2>1. /\ DOMAIN cart = 1 .. Len(cart) /\ Len(cart) \in Nat
        /\ \A i \in 1 .. Len(cart) : cart[i] \in CartLine
    BY <1>1
  <2>2. QED
    BY <2>1 DEF CartLine
<1>3. IsFiniteSet(DOMAIN cart)
  BY <1>2, FS_Interval
<1>4. \A i \in DOMAIN cart : prices[i] \in Nat
  BY <1>2
<1>5. SumFunctionOnSet(prices, DOMAIN cart) \in Nat
  BY <1>3, <1>4, SumType
<1>6. CartTotal(cart) \in Nat
  BY <1>5 DEF CartTotal, SumFunction
<1>7. ASSUME NEW p PROVE UnitsOf(cart, p) \in Nat
  <2> DEFINE lines == {i \in DOMAIN cart : cart[i].product = p}
  <2>1. IsFiniteSet(lines) /\ \A i \in lines : units[i] \in Nat
    BY <1>2, <1>3, FS_Subset
  <2>2. SumFunctionOnSet(units, lines) \in Nat
    <3> HIDE DEF lines, units
    <3> QED
      BY <2>1, SumType
  <2>3. QED
    BY <2>2 DEF UnitsOf
<1>8. QED
  BY <1>6, <1>7

-----------------------------------------------------------------------------
(***************************************************************************)
(* What the statements do to well-typed books.                             *)
(***************************************************************************)

\* Commissions are amounts, whatever the profile.
LEMMA CommissionType ==
    ASSUME NEW line \in CartLine
    PROVE  Commission(line) \in Nat
<1>1. line.price * line.qty \in Nat /\ line.qty \in Nat
  BY DEF CartLine
<1>2. CASE line.stylist = NoStylist
  BY <1>2 DEF Commission
<1>3. CASE line.stylist # NoStylist
  <2>1. line.stylist \in Stylist
    BY <1>3 DEF CartLine
  <2>2. Profile[line.stylist].rate \in Nat
    BY <2>1, AmountAssumption
  <2>3. Profile[line.stylist].rate * line.qty \in Nat
    BY <1>1, <2>2
  <2>4. (line.price * line.qty) * Profile[line.stylist].rate \in Nat
    BY <1>1, <2>2
  <2>5. \A n \in Nat : n \div 100 \in Nat
    OBVIOUS
  <2>6. QED
    BY <1>3, <2>3, <2>4, <2>5 DEF Commission
<1>4. QED
  BY <1>2, <1>3

\* The INSERT of the invoice leaves the drawers alone.
LEMMA WithInvoiceType ==
    ASSUME NEW d \in Databases, NEW sale \in AnySale, NEW day \in Day
    PROVE  /\ WithInvoice(d, sale, day) \in Databases
           /\ WithInvoice(d, sale, day).drawer = d.drawer
<1> DEFINE invoice == [day |-> day, client |-> sale.client, method |-> sale.method,
                       total |-> CartTotal(sale.cart)]
<1>1. invoice \in Invoice
  BY RequestAssumption, CartSums DEF AnySale, Sale, Invoice
<1>2. Append(d.invoices, invoice) \in Seq(Invoice)
  BY <1>1 DEF Databases
<1>3. WithInvoice(d, sale, day) = [d EXCEPT !.invoices = Append(d.invoices, invoice)]
  BY DEF WithInvoice
<1> HIDE DEF invoice
<1>4. QED
  BY <1>2, <1>3 DEF Databases

\* The rows of the cart and the stock.
LEMMA WithItemsType ==
    ASSUME NEW d \in Databases, NEW sale \in AnySale
    PROVE  /\ WithItems(d, sale) \in Databases
           /\ WithItems(d, sale).drawer = d.drawer
<1> DEFINE rows == [i \in DOMAIN sale.cart |->
                       [invoice |-> Len(d.invoices), line |-> sale.cart[i],
                        commission |-> Commission(sale.cart[i])]]
           stock == [p \in Product |-> d.stock[p] - UnitsOf(sale.cart, p)]
<1>1. sale.cart \in Seq(CartLine) /\ Len(d.invoices) \in Nat
  BY RequestAssumption DEF AnySale, Sale, Databases
<1>2. rows \in Seq(ItemRow)
  <2>1. /\ DOMAIN sale.cart = 1 .. Len(sale.cart)
        /\ Len(sale.cart) \in Nat
        /\ \A i \in 1 .. Len(sale.cart) : sale.cart[i] \in CartLine
    BY <1>1
  <2>2. \A i \in 1 .. Len(sale.cart) :
           [invoice |-> Len(d.invoices), line |-> sale.cart[i],
            commission |-> Commission(sale.cart[i])] \in ItemRow
    BY <1>1, <2>1, CommissionType DEF ItemRow
  <2>3. rows \in [1 .. Len(sale.cart) -> ItemRow]
    BY <2>1, <2>2
  <2>4. QED
    BY <2>1, <2>3, SeqDef
<1>3. d.items \o rows \in Seq(ItemRow)
  <2> HIDE DEF rows
  <2>1. d.items \in Seq(ItemRow)
    BY DEF Databases
  <2>2. QED
    BY <1>2, <2>1, ConcatProperties
<1>4. stock \in [Product -> Int]
  <2>1. \A p \in Product : UnitsOf(sale.cart, p) \in Int
    BY CartSums
  <2>2. d.stock \in [Product -> Int]
    BY DEF Databases
  <2>3. QED
    BY <2>1, <2>2
<1>5. WithItems(d, sale) = [d EXCEPT !.items = d.items \o rows, !.stock = stock]
  BY DEF WithItems
<1> HIDE DEF rows, stock
<1>6. QED
  BY <1>3, <1>4, <1>5 DEF Databases

\* The client's total.
LEMMA WithSpentType ==
    ASSUME NEW d \in Databases, NEW sale \in AnySale
    PROVE  /\ WithSpent(d, sale) \in Databases
           /\ WithSpent(d, sale).drawer = d.drawer
<1>1. CASE sale.client = NoClient
  BY <1>1 DEF WithSpent
<1>2. CASE sale.client # NoClient
  <2>1. sale.client \in Client /\ CartTotal(sale.cart) \in Nat
    BY <1>2, RequestAssumption, CartSums DEF AnySale, Sale
  <2>2. d.spent \in [Client -> Nat]
    BY DEF Databases
  <2>3. [d.spent EXCEPT ![sale.client] = d.spent[sale.client] + CartTotal(sale.cart)]
           \in [Client -> Nat]
    BY <2>1, <2>2
  <2>4. WithSpent(d, sale) =
           [d EXCEPT !.spent = [d.spent EXCEPT ![sale.client] =
                                   d.spent[sale.client] + CartTotal(sale.cart)]]
    BY <1>2 DEF WithSpent
  <2>5. QED
    BY <2>3, <2>4 DEF Databases
<1>3. QED
  BY <1>1, <1>2

-----------------------------------------------------------------------------
(***************************************************************************)
(* The rows of cash_reconciliation.                                        *)
(***************************************************************************)

\* DrawerBalances, of one row.
Balanced(row) == row.status = "open" => row.closing = OpeningCash + row.cash - row.expenses

\* A row inserted for a day that had none.
LEMMA NewRowBalanced ==
    ASSUME NEW cash \in Nat, NEW digital \in Nat, NEW expenses \in Nat
    PROVE  /\ NewRow(cash, digital, expenses) \in DrawerRow
           /\ Balanced(NewRow(cash, digital, expenses))
BY AmountAssumption DEF NewRow, DrawerRow, Balanced

\* A sale adds the same amount to the cash sales and to the expected balance.
LEMMA RowWithSaleBalanced ==
    ASSUME NEW row \in DrawerRow, NEW sale \in AnySale, Balanced(row)
    PROVE  RowWithSale(row, sale) \in DrawerRow /\ Balanced(RowWithSale(row, sale))
<1> DEFINE total == CartTotal(sale.cart)
<1>1. total \in Nat
  BY CartSums
<1> HIDE DEF total
<1>2. CASE row.status = "open" /\ sale.method = "cash"
  <2>1. RowWithSale(row, sale) =
           [row EXCEPT !.cash = row.cash + total, !.closing = row.closing + total]
    BY <1>2 DEF RowWithSale, total
  <2>2. /\ row.cash \in Nat /\ row.expenses \in Nat /\ row.closing \in Int
        /\ row.closing = OpeningCash + row.cash - row.expenses
    BY <1>2 DEF DrawerRow, Balanced
  <2>3. /\ row.closing + total = OpeningCash + (row.cash + total) - row.expenses
        /\ row.closing + total \in Int /\ row.cash + total \in Nat
    BY <1>1, <2>2, AmountAssumption
  <2>4. RowWithSale(row, sale) \in DrawerRow
    <3>1. [row EXCEPT !.cash = row.cash + total] \in DrawerRow
      BY <2>3 DEF DrawerRow
    <3>2. \A r \in DrawerRow, n \in Int : [r EXCEPT !.closing = n] \in DrawerRow
      BY DEF DrawerRow
    <3>3. QED
      BY <2>1, <2>3, <3>1, <3>2
  <2>5. QED
    BY <2>1, <2>3, <2>4 DEF DrawerRow, Balanced
<1>3. CASE row.status = "open" /\ sale.method # "cash"
  <2>1. RowWithSale(row, sale) = [row EXCEPT !.digital = row.digital + total]
    BY <1>3 DEF RowWithSale, total
  <2>2. QED
    BY <1>1, <1>3, <2>1 DEF DrawerRow, Balanced
<1>4. CASE row.status # "open"
  <2>1. RowWithSale(row, sale) = NewRow(IF sale.method = "cash" THEN total ELSE 0,
                                        IF sale.method = "digital" THEN total ELSE 0, 0)
    BY <1>4 DEF RowWithSale, total
  <2>2. QED
    BY <1>1, <2>1, NewRowBalanced
<1>5. QED
  BY <1>2, <1>3, <1>4

\* An expense adds to the expenses what it takes from the expected balance.
LEMMA RowWithExpenseBalanced ==
    ASSUME NEW row \in DrawerRow, NEW amount \in Nat, Balanced(row)
    PROVE  RowWithExpense(row, amount) \in DrawerRow /\ Balanced(RowWithExpense(row, amount))
<1>1. CASE row.status = "open"
  <2>1. RowWithExpense(row, amount) =
           [row EXCEPT !.expenses = row.expenses + amount, !.closing = row.closing - amount]
    BY <1>1 DEF RowWithExpense
  <2>2. /\ row.cash \in Nat /\ row.expenses \in Nat /\ row.closing \in Int
        /\ row.closing = OpeningCash + row.cash - row.expenses
    BY <1>1 DEF DrawerRow, Balanced
  <2>3. /\ row.closing - amount = OpeningCash + row.cash - (row.expenses + amount)
        /\ row.closing - amount \in Int /\ row.expenses + amount \in Nat
    BY <2>2, AmountAssumption
  <2>4. RowWithExpense(row, amount) \in DrawerRow
    <3>1. [row EXCEPT !.expenses = row.expenses + amount] \in DrawerRow
      BY <2>3 DEF DrawerRow
    <3>2. \A r \in DrawerRow, n \in Int : [r EXCEPT !.closing = n] \in DrawerRow
      BY DEF DrawerRow
    <3>3. QED
      BY <2>1, <2>3, <3>1, <3>2
  <2>5. QED
    BY <2>1, <2>3, <2>4 DEF DrawerRow, Balanced
<1>2. CASE row.status # "open"
  BY <1>2, NewRowBalanced DEF RowWithExpense
<1>3. QED
  BY <1>1, <1>2

\* Books whose open drawers balance.
Good(d) == d \in Databases /\ \A day \in Day : Balanced(d.drawer[day])

\* Replacing one row by a balanced one.
LEMMA RowReplaced ==
    ASSUME NEW d, Good(d), NEW day \in Day, NEW row \in DrawerRow, Balanced(row)
    PROVE  Good([d EXCEPT !.drawer[day] = row])
<1>1. d \in Databases /\ d.drawer \in [Day -> DrawerRow]
  BY DEF Good, Databases
<1>2. [d.drawer EXCEPT ![day] = row] \in [Day -> DrawerRow]
  BY <1>1
<1>3. [d EXCEPT !.drawer[day] = row] = [d EXCEPT !.drawer = [d.drawer EXCEPT ![day] = row]]
  OBVIOUS
<1>4. QED
  BY <1>1, <1>2, <1>3 DEF Good, Databases

\* Everything before the drawer step of a sale.
RungUp(d, sale, day) == WithSpent(WithItems(WithInvoice(d, sale, day), sale), sale)

\* Everything before the drawer step leaves the drawers alone.
LEMMA RungUpType ==
    ASSUME NEW d \in Databases, NEW sale \in AnySale, NEW day \in Day
    PROVE  RungUp(d, sale, day) \in Databases /\ RungUp(d, sale, day).drawer = d.drawer
BY WithInvoiceType, WithItemsType, WithSpentType DEF RungUp

\* The INSERT of an expense leaves the drawers alone.
LEMMA WithExpenseType ==
    ASSUME NEW d \in Databases, NEW spending \in Spendings
    PROVE  WithExpense(d, spending) \in Databases /\ WithExpense(d, spending).drawer = d.drawer
<1>1. Append(d.expenses, spending) \in Seq(Spending)
  BY RequestAssumption DEF Databases
<1>2. QED
  BY <1>1 DEF WithExpense, Databases

\* Each kind of transaction, taken as a whole, keeps the books good.
LEMMA SaleGood ==
    ASSUME NEW d, Good(d), NEW sale \in AnySale, NEW stamp \in Day, NEW day \in Day
    PROVE  Good(WithSale(RungUp(d, sale, stamp), sale, day))
<1> DEFINE e == RungUp(d, sale, stamp)
<1>1. e \in Databases /\ e.drawer = d.drawer
  BY RungUpType DEF Good
<1> HIDE DEF e
<1>2. Good(e) /\ e.drawer[day] \in DrawerRow /\ Balanced(e.drawer[day])
  BY <1>1 DEF Good, Databases
<1>3. Good([e EXCEPT !.drawer[day] = RowWithSale(e.drawer[day], sale)])
  BY <1>2, RowWithSaleBalanced, RowReplaced
<1>4. QED
  BY <1>3 DEF WithSale, e

\* An expense, with its drawer step.
LEMMA SpendingGood ==
    ASSUME NEW d, Good(d), NEW spending \in Spendings
    PROVE  Good(WithSpending(WithExpense(d, spending), spending))
<1> DEFINE e == WithExpense(d, spending)
<1>1. e \in Databases /\ e.drawer = d.drawer
  BY WithExpenseType DEF Good
<1>2. spending.date \in Day /\ spending.amount \in Nat
  BY RequestAssumption DEF Spending
<1> HIDE DEF e
<1>3. Good(e) /\ e.drawer[spending.date] \in DrawerRow /\ Balanced(e.drawer[spending.date])
  BY <1>1, <1>2 DEF Good, Databases
<1>4. Good([e EXCEPT !.drawer[spending.date] =
                        RowWithExpense(e.drawer[spending.date], spending.amount)])
  BY <1>2, <1>3, RowWithExpenseBalanced, RowReplaced
<1>5. QED
  BY <1>4 DEF WithSpending, e

\* The row getTodayStatus inserts.
LEMMA NewDayGood ==
    ASSUME NEW d, Good(d), NEW day \in Day
    PROVE  Good(WithNewDay(d, day))
BY NewRowBalanced, RowReplaced DEF WithNewDay

\* A closed row need not balance: its closing balance is what was counted.
LEMMA ClosedGood ==
    ASSUME NEW d, Good(d), NEW day \in Day, NEW counted \in Counts
    PROVE  Good(WithClosed(d, day, counted))
<1> DEFINE row == [d.drawer[day] EXCEPT !.status = "closed", !.closing = counted]
<1>1. d.drawer \in [Day -> DrawerRow]
  BY DEF Good, Databases
<1>2. row \in DrawerRow /\ Balanced(row)
  BY <1>1, RequestAssumption DEF DrawerRow, Balanced
<1>3. Good([d EXCEPT !.drawer[day] = row])
  BY <1>2, RowReplaced
<1>4. WithClosed(d, day, counted) = [d EXCEPT !.drawer[day] = row]
  BY <1>1 DEF WithClosed, Good, Databases
<1>5. QED
  BY <1>3, <1>4

\* Stock has nothing to do with the drawers.
LEMMA StockGood ==
    ASSUME NEW d, Good(d), NEW delivery \in Deliveries
    PROVE  Good(WithStock(d, delivery))
<1>1. d \in Databases /\ d.stock \in [Product -> Int]
  BY DEF Good, Databases
<1>2. delivery.product \in Product /\ delivery.qty \in Int
  BY RequestAssumption DEF Delivery
<1>3. [d.stock EXCEPT ![delivery.product] = d.stock[delivery.product] + delivery.qty]
         \in [Product -> Int]
  BY <1>1, <1>2
<1>4. WithStock(d, delivery) =
         [d EXCEPT !.stock = [d.stock EXCEPT ![delivery.product] =
                                 d.stock[delivery.product] + delivery.qty]]
  BY DEF WithStock
<1>5. QED
  BY <1>1, <1>3, <1>4 DEF Good, Databases

-----------------------------------------------------------------------------
(***************************************************************************)
(* The invariant of the concurrent system, and how each kind of step on    *)
(* the variables preserves it.                                             *)
(***************************************************************************)

Inv == TypeOK /\ IsolationInv /\ DrawerBalances

Others(w) == \A v \in Worker \ {w} : pc'[v] = pc[v] /\ job'[v] = job[v]

\* What the invariant says of the requests and the books.
LEMMA InvFacts ==
    ASSUME Inv
    PROVE  RequestsTypeOK /\ db \in Databases /\ Good(db)
BY DEF Inv, TypeOK, DrawerBalances, Good, Balanced

\* The job of a request is of the kind its next call needs.
LEMMA JobFacts ==
    ASSUME RequestsTypeOK, NEW w \in Worker
    PROVE  /\ today \in Day
           /\ pc[w] \in SalePc => /\ job[w].sale \in AnySale
                                  /\ job[w].day \in Day /\ job[w].day <= today
           /\ pc[w] \in ExpensePc => job[w] \in Spendings /\ job[w].date \in Day
           /\ pc[w] = "insertDrawer" => job[w].day \in Day /\ job[w].day <= today
           /\ pc[w] = "closeDrawer" => job[w].day \in Day /\ job[w].counted \in Counts
BY RequestAssumption
   DEF RequestsTypeOK, JobTypeOK, SaleJob, DayJob, CloseJob, AnySale, Spending

\* The request goes on with a further call of the same handler.
LEMMA GotoStep ==
    ASSUME RequestsTypeOK, NEW w \in Worker, NEW next, Goto(w, next),
           \/ pc[w] \in SalePc /\ next \in SalePc
           \/ pc[w] \in ExpensePc /\ next \in ExpensePc
    PROVE  /\ RequestsTypeOK' /\ Others(w)
           /\ pc'[w] = next /\ job'[w] = job[w] /\ today' = today
BY DEF RequestsTypeOK, JobTypeOK, Goto, Others, SalePc, ExpensePc

\* The request is answered, or its worker dies.
LEMMA AnswerStep ==
    ASSUME RequestsTypeOK, NEW w \in Worker, NEW r \in {"none", "ok", "failed"},
           Answer(w, r)
    PROVE  RequestsTypeOK' /\ Others(w) /\ pc'[w] = "idle" /\ today' = today
BY DEF RequestsTypeOK, JobTypeOK, Answer, Others, SalePc, ExpensePc

\* A new request arrives.
LEMMA AcceptStep ==
    ASSUME RequestsTypeOK, NEW w \in Worker, NEW j, NEW first, Accept(w, j, first),
           \/ j \in SaleJob /\ j.day <= today /\ first \in {"insertInvoice", "upgradeInvoice"}
           \/ j \in Spendings /\ first = "insertExpense"
           \/ j \in DayJob /\ j.day <= today /\ first = "insertDrawer"
           \/ j \in CloseJob /\ first = "closeDrawer"
    PROVE  /\ RequestsTypeOK' /\ Others(w)
           /\ pc[w] = "idle" /\ pc'[w] = first /\ today' = today
BY DEF RequestsTypeOK, JobTypeOK, Accept, Others, SalePc, ExpensePc

\* A step that reads, at most.
LEMMA ReadStep ==
    ASSUME Inv, NEW w \in Worker, RequestsTypeOK', Others(w),
           UNCHANGED walVars \/ OpenSnapshot(w),
           pc[w] \notin WritingPc, pc'[w] \notin WritingPc
    PROVE  Inv'
<1>1. UNCHANGED <<db, pending, writer>> /\ WalTypeOK'
  BY DEF Inv, TypeOK, WalTypeOK, OpenSnapshot, walVars
<1>2. TypeOK'
  BY <1>1 DEF Inv, TypeOK
<1>3. LockInv'
  BY <1>1 DEF Inv, IsolationInv, LockInv, LockFree, Others
<1>4. PendingInv'
  BY <1>1 DEF Inv, IsolationInv, PendingInv, Others, WritingPc
<1>5. DrawerBalances'
  BY <1>1 DEF Inv, DrawerBalances
<1>6. QED
  BY <1>2, <1>3, <1>4, <1>5 DEF Inv, IsolationInv

\* A statement of a transaction that is to go on: nothing is committed, and
\* the writer is known to have written new.
LEMMA WriteStep ==
    ASSUME Inv, NEW w \in Worker, RequestsTypeOK', Others(w),
           NEW new \in Databases, TakeLock(w, new) \/ Amend(w, new), pc'[w] \in WritingPc,
           pc'[w] = "addItems" => new = WithInvoice(db, job'[w].sale, job'[w].day),
           pc'[w] = "updateDrawer" => new = RungUp(db, job'[w].sale, job'[w].day),
           pc'[w] = "expenseDrawer" => new = WithExpense(db, job'[w])
    PROVE  Inv'
<1>1. /\ writer' = w /\ pending' = new /\ db' = db
      /\ LockFree \/ writer = w
  BY DEF TakeLock, Amend
<1>2. TypeOK'
  BY <1>1 DEF Inv, TypeOK, WalTypeOK, TakeLock, Amend
<1>3. \A v \in Worker \ {w} : pc'[v] \notin WritingPc
  BY <1>1, NoWorkerAssumption DEF Inv, IsolationInv, LockInv, LockFree, Others
<1>4. LockInv'
  BY <1>1, <1>3, NoWorkerAssumption DEF LockInv, LockFree
<1>5. PendingInv'
  BY <1>1, <1>3 DEF PendingInv, RungUp, WritingPc
<1>6. DrawerBalances'
  BY <1>1 DEF Inv, DrawerBalances
<1>7. QED
  BY <1>2, <1>4, <1>5, <1>6 DEF Inv, IsolationInv

\* The COMMIT of a transaction, or a statement that is one.
LEMMA InstallStep ==
    ASSUME Inv, NEW w \in Worker, RequestsTypeOK', Others(w),
           NEW new, Good(new), Install(w, new), LockFree \/ writer = w,
           pc'[w] = "idle"
    PROVE  Inv'
<1>1. TypeOK'
  BY DEF Inv, TypeOK, WalTypeOK, Install, OutdatedBy, Good
<1>2. \A v \in Worker : pc'[v] \notin WritingPc
  BY NoWorkerAssumption DEF Inv, IsolationInv, LockInv, LockFree, Others, WritingPc
<1>3. LockInv'
  BY <1>2, NoWorkerAssumption DEF LockInv, LockFree, Install
<1>4. PendingInv'
  BY <1>2 DEF PendingInv, WritingPc
<1>5. DrawerBalances'
  BY DEF Install, Good, Balanced, DrawerBalances
<1>6. QED
  BY <1>1, <1>3, <1>4, <1>5 DEF Inv, IsolationInv

\* A request that fails, or dies, rolls back and is over.
LEMMA FailInv ==
    ASSUME Inv, NEW w \in Worker, NEW r \in {"none", "failed"}, Fail(w, r)
    PROVE  Inv' /\ db' = db /\ today' = today
<1>1. RequestsTypeOK' /\ Others(w) /\ pc'[w] = "idle" /\ today' = today
  BY InvFacts, AnswerStep DEF Fail
<1>2. Rollback(w)
  BY DEF Fail
<1>3. TypeOK'
  BY <1>1, <1>2 DEF Inv, TypeOK, WalTypeOK, Rollback
<1>4. LockInv'
  BY <1>1, <1>2, NoWorkerAssumption
     DEF Inv, IsolationInv, LockInv, LockFree, Rollback, Others, WritingPc
<1>5. PendingInv'
  <2>1. ASSUME NEW v \in Worker, pc'[v] \in WritingPc
        PROVE  pending' = pending /\ db' = db /\ pc[v] = pc'[v] /\ job'[v] = job[v]
    BY <1>1, <1>2, <2>1 DEF Inv, IsolationInv, LockInv, Rollback, Others, WritingPc
  <2>2. QED
    BY <2>1 DEF Inv, IsolationInv, PendingInv, WritingPc
<1>6. DrawerBalances'
  BY <1>2 DEF Inv, DrawerBalances, Rollback
<1>7. QED
  BY <1>1, <1>2, <1>3, <1>4, <1>5, <1>6 DEF Inv, IsolationInv, Rollback

-----------------------------------------------------------------------------
(***************************************************************************)
(* The operators of AtomicLedger, under the refinement mapping, are those  *)
(* of Ledger.                                                              *)
(***************************************************************************)

\* The sums over a cart.
LEMMA SameSums ==
    ASSUME NEW cart
    PROVE  /\ CartTotal(cart) = Atomic!CartTotal(cart)
           /\ \A p : UnitsOf(cart, p) = Atomic!UnitsOf(cart, p)
<1>1. CartTotal(cart) = Atomic!CartTotal(cart)
  BY Zenon DEF CartTotal, Atomic!CartTotal, SumFunction, Atomic!SumFunction,
               SumFunctionOnSet, Atomic!SumFunctionOnSet, FoldFunctionOnSet,
               Atomic!FoldFunctionOnSet, MapThenFoldSet, Atomic!MapThenFoldSet
<1>2. \A p : UnitsOf(cart, p) = Atomic!UnitsOf(cart, p)
  BY Zenon DEF UnitsOf, Atomic!UnitsOf, SumFunctionOnSet, Atomic!SumFunctionOnSet,
               FoldFunctionOnSet, Atomic!FoldFunctionOnSet, MapThenFoldSet,
               Atomic!MapThenFoldSet
<1>3. QED
  BY <1>1, <1>2

\* The rows of cash_reconciliation.
LEMMA SameRow ==
    /\ \A c, g, e : NewRow(c, g, e) = Atomic!NewRow(c, g, e)
    /\ \A row, sale : RowWithSale(row, sale) = Atomic!RowWithSale(row, sale)
    /\ \A row, amount : RowWithExpense(row, amount) = Atomic!RowWithExpense(row, amount)
<1>1. \A c, g, e : NewRow(c, g, e) = Atomic!NewRow(c, g, e)
  BY DEF NewRow, Atomic!NewRow
<1>2. \A row, sale : RowWithSale(row, sale) = Atomic!RowWithSale(row, sale)
  BY <1>1, SameSums DEF RowWithSale, Atomic!RowWithSale
<1>3. \A row, amount : RowWithExpense(row, amount) = Atomic!RowWithExpense(row, amount)
  BY <1>1 DEF RowWithExpense, Atomic!RowWithExpense
<1>4. QED
  BY <1>1, <1>2, <1>3

\* A whole sale.
LEMMA SameSale ==
    ASSUME NEW d, NEW sale, NEW stamp, NEW day
    PROVE  WithSale(RungUp(d, sale, stamp), sale, day) =
              Atomic!WithSale(
                  Atomic!WithSpent(
                      Atomic!WithItems(Atomic!WithInvoice(d, sale, stamp), sale), sale),
                  sale, day)
<1>1. \A e : WithInvoice(e, sale, stamp) = Atomic!WithInvoice(e, sale, stamp)
  BY SameSums DEF WithInvoice, Atomic!WithInvoice
<1>2. \A line : Commission(line) = Atomic!Commission(line)
  BY DEF Commission, Atomic!Commission
<1>3. \A e : WithItems(e, sale) = Atomic!WithItems(e, sale)
  BY <1>2, SameSums DEF WithItems, Atomic!WithItems
<1>4. \A e : WithSpent(e, sale) = Atomic!WithSpent(e, sale)
  BY SameSums DEF WithSpent, Atomic!WithSpent
<1>5. \A e : WithSale(e, sale, day) = Atomic!WithSale(e, sale, day)
  BY SameRow DEF WithSale, Atomic!WithSale
<1>6. QED
  BY <1>1, <1>3, <1>4, <1>5 DEF RungUp

\* A whole expense.
LEMMA SameSpending ==
    ASSUME NEW d, NEW spending
    PROVE  WithSpending(WithExpense(d, spending), spending) =
              Atomic!WithSpending(Atomic!WithExpense(d, spending), spending)
<1>1. \A e : WithExpense(e, spending) = Atomic!WithExpense(e, spending)
  BY DEF WithExpense, Atomic!WithExpense
<1>2. \A e : WithSpending(e, spending) = Atomic!WithSpending(e, spending)
  BY SameRow DEF WithSpending, Atomic!WithSpending
<1>3. QED
  BY <1>1, <1>2

\* The seeded books, and the transactions of one statement.
LEMMA SameRest ==
    /\ Seeded = Atomic!Seeded
    /\ \A d, day : WithNewDay(d, day) = Atomic!WithNewDay(d, day)
    /\ \A d, day, counted : WithClosed(d, day, counted) = Atomic!WithClosed(d, day, counted)
    /\ \A d, delivery : WithStock(d, delivery) = Atomic!WithStock(d, delivery)
<1>1. Seeded = Atomic!Seeded
  BY SameRow DEF Seeded, Atomic!Seeded, NoRow, Atomic!NoRow, Day, Atomic!Day
<1>2. \A d, day : WithNewDay(d, day) = Atomic!WithNewDay(d, day)
  BY SameRow DEF WithNewDay, Atomic!WithNewDay
<1>3. \A d, day, counted : WithClosed(d, day, counted) = Atomic!WithClosed(d, day, counted)
  BY DEF WithClosed, Atomic!WithClosed
<1>4. \A d, delivery : WithStock(d, delivery) = Atomic!WithStock(d, delivery)
  BY DEF WithStock, Atomic!WithStock
<1>5. QED
  BY <1>1, <1>2, <1>3, <1>4

-----------------------------------------------------------------------------
(***************************************************************************)
(* The actions: each keeps the invariant and is a step of AtomicLedger, or *)
(* leaves the books and the calendar alone.                                *)
(***************************************************************************)

Books == <<db, today>>

Refines == Atomic!Next \/ UNCHANGED Books

\* The two arrivals of a sale.
LEMMA RequestSaleStep ==
    ASSUME Inv, NEW w \in Worker, RequestCheckout(w) \/ RequestAutoInvoice(w)
    PROVE  Inv' /\ Refines
<1>1. today \in Day
  BY InvFacts DEF RequestsTypeOK
<1>2. \A sale \in AnySale : [sale |-> sale, day |-> today] \in SaleJob
  BY <1>1 DEF SaleJob, AnySale
<1>3. PICK sale \in AnySale, first \in {"insertInvoice", "upgradeInvoice"} :
          Accept(w, [sale |-> sale, day |-> today], first)
  BY DEF RequestCheckout, RequestAutoInvoice, AnySale
<1>4. today <= today
  BY <1>1 DEF Day
<1>5. /\ RequestsTypeOK' /\ Others(w)
      /\ pc[w] = "idle" /\ pc'[w] = first /\ today' = today
  BY <1>2, <1>3, <1>4, InvFacts, AcceptStep
<1>6. UNCHANGED walVars \/ OpenSnapshot(w)
  BY DEF RequestCheckout, RequestAutoInvoice
<1>7. QED
  BY <1>5, <1>6, ReadStep DEF Refines, Books, OpenSnapshot, walVars, WritingPc

\* createCheckout up to its drawer step.
LEMMA SaleStatementStep ==
    ASSUME Inv, NEW w \in Worker, InsertInvoice(w) \/ AddItems(w)
    PROVE  Inv' /\ Refines
<1>1. /\ pc[w] \in SalePc
      /\ job[w].sale \in AnySale /\ job[w].day \in Day
      /\ db \in Databases
  BY InvFacts, JobFacts DEF InsertInvoice, AddItems, SalePc
<1>2. CASE InsertInvoice(w)
  <2>1. /\ RequestsTypeOK' /\ Others(w)
        /\ pc'[w] = "addItems" /\ job'[w] = job[w] /\ today' = today
    BY <1>1, <1>2, InvFacts, GotoStep DEF InsertInvoice, SalePc
  <2>2. WithInvoice(db, job[w].sale, job[w].day) \in Databases
    BY <1>1, WithInvoiceType
  <2>3. TakeLock(w, WithInvoice(db, job[w].sale, job[w].day))
    BY <1>2 DEF InsertInvoice
  <2>4. Inv'
    BY <2>1, <2>2, <2>3, WriteStep DEF WritingPc
  <2>5. QED
    BY <2>1, <2>3, <2>4 DEF Refines, Books, TakeLock
<1>3. CASE AddItems(w)
  <2>1. /\ RequestsTypeOK' /\ Others(w)
        /\ pc'[w] = "updateDrawer" /\ job'[w] = job[w] /\ today' = today
    BY <1>1, <1>3, InvFacts, GotoStep DEF AddItems, SalePc
  <2>2. pending = WithInvoice(db, job[w].sale, job[w].day)
    BY <1>3 DEF AddItems, Inv, IsolationInv, PendingInv
  <2>3. RungUp(db, job[w].sale, job[w].day) \in Databases
    BY <1>1, RungUpType
  <2>4. Amend(w, RungUp(db, job[w].sale, job[w].day))
    BY <1>3, <2>2 DEF AddItems, RungUp
  <2>5. Inv'
    BY <2>1, <2>3, <2>4, WriteStep DEF WritingPc
  <2>6. QED
    BY <2>1, <2>4, <2>5 DEF Refines, Books, Amend
<1>4. QED
  BY <1>2, <1>3

\* The COMMIT of a sale is AtomicLedger's Sell.
LEMMA UpdateDrawerStep ==
    ASSUME Inv, NEW w \in Worker, UpdateDrawer(w)
    PROVE  Inv' /\ Refines
<1>1. CASE Fail(w, "failed")
  BY <1>1, FailInv DEF Refines, Books
<1>2. CASE /\ pending.drawer[today].status # "closed"
           /\ Commit(w, WithSale(pending, job[w].sale, today))
           /\ Answer(w, "ok")
  <2> DEFINE sale == job[w].sale
             stamp == job[w].day
             new == WithSale(RungUp(db, sale, stamp), sale, today)
  <2>1. /\ sale \in AnySale /\ stamp \in Day /\ stamp <= today
        /\ today \in Day /\ db \in Databases
    BY InvFacts, JobFacts DEF UpdateDrawer, SalePc
  <2>2. RequestsTypeOK' /\ Others(w) /\ pc'[w] = "idle" /\ today' = today
    BY <1>2, InvFacts, AnswerStep
  <2>3. pending = RungUp(db, sale, stamp)
    BY DEF UpdateDrawer, Inv, IsolationInv, PendingInv, RungUp
  <2>4. pending.drawer = db.drawer
    BY <2>1, <2>3, RungUpType
  <2>5. Good(new)
    BY <2>1, InvFacts, SaleGood
  <2>6. writer = w /\ Install(w, new)
    BY <1>2, <2>3 DEF Commit
  <2>7. Inv'
    BY <2>2, <2>5, <2>6, InstallStep
  <2>8. stamp \in 1 .. today
    BY <2>1 DEF Day
  <2>9. Atomic!Sell
    <3>1. db' = new /\ db.drawer[today].status # "closed"
      BY <1>2, <2>4, <2>6 DEF Install
    <3>2. QED
      BY <2>1, <2>2, <2>8, <3>1, SameSale DEF Atomic!Sell, AnySale
  <2>10. QED
    BY <2>7, <2>9 DEF Refines, Atomic!Next
<1>3. QED
  BY <1>1, <1>2 DEF UpdateDrawer

\* The calls of Expense::create; its COMMIT is AtomicLedger's Spend.
LEMMA ExpenseStep ==
    ASSUME Inv, NEW w \in Worker, RequestExpense(w) \/ InsertExpense(w) \/ ExpenseDrawer(w)
    PROVE  Inv' /\ Refines
<1>1. CASE RequestExpense(w)
  <2>1. PICK spending \in Spendings : Accept(w, spending, "insertExpense")
    BY <1>1 DEF RequestExpense
  <2>2. /\ RequestsTypeOK' /\ Others(w)
        /\ pc[w] = "idle" /\ pc'[w] = "insertExpense" /\ today' = today
    BY <2>1, InvFacts, AcceptStep
  <2>3. UNCHANGED walVars
    BY <1>1 DEF RequestExpense
  <2>4. Inv'
    BY <2>2, <2>3, ReadStep DEF WritingPc
  <2>5. QED
    BY <2>2, <2>3, <2>4 DEF Refines, Books, walVars
<1>2. CASE InsertExpense(w)
  <2>1. job[w] \in Spendings /\ db \in Databases
    BY <1>2, InvFacts, JobFacts DEF InsertExpense, ExpensePc
  <2>2. /\ RequestsTypeOK' /\ Others(w)
        /\ pc'[w] = "expenseDrawer" /\ job'[w] = job[w] /\ today' = today
    BY <1>2, InvFacts, GotoStep DEF InsertExpense, ExpensePc
  <2>3. TakeLock(w, WithExpense(db, job[w]))
    BY <1>2 DEF InsertExpense
  <2>4. Inv'
    BY <2>1, <2>2, <2>3, WithExpenseType, WriteStep DEF WritingPc
  <2>5. QED
    BY <2>2, <2>3, <2>4 DEF Refines, Books, TakeLock
<1>3. CASE ExpenseDrawer(w)
  <2>1. CASE Fail(w, "failed")
    BY <2>1, FailInv DEF Refines, Books
  <2>2. CASE /\ pending.drawer[job[w].date].status # "closed"
             /\ Commit(w, WithSpending(pending, job[w]))
             /\ Answer(w, "ok")
    <3> DEFINE new == WithSpending(WithExpense(db, job[w]), job[w])
    <3>1. job[w] \in Spendings /\ job[w].date \in Day /\ db \in Databases
      BY <1>3, InvFacts, JobFacts DEF ExpenseDrawer, ExpensePc
    <3>2. RequestsTypeOK' /\ Others(w) /\ pc'[w] = "idle" /\ today' = today
      BY <2>2, InvFacts, AnswerStep
    <3>3. pending = WithExpense(db, job[w])
      BY <1>3 DEF ExpenseDrawer, Inv, IsolationInv, PendingInv
    <3>4. writer = w /\ Install(w, new)
      BY <2>2, <3>3 DEF Commit
    <3>5. Inv'
      BY <3>1, <3>2, <3>4, InvFacts, SpendingGood, InstallStep
    <3>6. Atomic!Spend
      <4>1. db' = new /\ db.drawer[job[w].date].status # "closed"
        BY <2>2, <3>1, <3>3, <3>4, WithExpenseType DEF Install
      <4>2. QED
        BY <3>1, <3>2, <4>1, SameSpending DEF Atomic!Spend
    <3>7. QED
      BY <3>5, <3>6 DEF Refines, Atomic!Next
  <2>3. QED
    BY <1>3, <2>1, <2>2 DEF ExpenseDrawer
<1>4. QED
  BY <1>1, <1>2, <1>3

\* The reconciliation screen opens the day's drawer at most once.
LEMMA DrawerStep ==
    ASSUME Inv, NEW w \in Worker, ReadDrawer(w) \/ InsertDrawer(w)
    PROVE  Inv' /\ Refines
<1>1. CASE ReadDrawer(w)
  <2>1. today \in Day /\ [day |-> today] \in DayJob /\ today <= today
    BY InvFacts DEF RequestsTypeOK, DayJob, Day
  <2>2. /\ RequestsTypeOK' /\ Others(w)
        /\ pc[w] = "idle" /\ pc'[w] \in {"idle", "insertDrawer"} /\ today' = today
    <3>1. CASE Accept(w, [day |-> today], "insertDrawer")
      BY <2>1, <3>1, InvFacts, AcceptStep
    <3>2. CASE pc[w] = "idle" /\ Answer(w, "ok")
      BY <3>2, InvFacts, AnswerStep
    <3>3. QED
      BY <1>1, <3>1, <3>2 DEF ReadDrawer
  <2>3. UNCHANGED walVars
    BY <1>1 DEF ReadDrawer
  <2>4. Inv'
    BY <2>2, <2>3, ReadStep DEF WritingPc
  <2>5. QED
    BY <2>2, <2>3, <2>4 DEF Refines, Books, walVars
<1>2. CASE InsertDrawer(w)
  <2>1. job[w].day \in Day /\ job[w].day <= today /\ today \in Day
    BY <1>2, InvFacts, JobFacts DEF InsertDrawer
  <2>2. CASE Fail(w, "failed")
    BY <2>2, FailInv DEF Refines, Books
  <2>3. CASE /\ db.drawer[job[w].day].status = "none"
             /\ Autocommit(w, WithNewDay(db, job[w].day))
             /\ Answer(w, "ok")
    <3>1. RequestsTypeOK' /\ Others(w) /\ pc'[w] = "idle" /\ today' = today
      BY <2>3, InvFacts, AnswerStep
    <3>2. LockFree /\ Install(w, WithNewDay(db, job[w].day))
      BY <2>3 DEF Autocommit
    <3>3. Inv'
      BY <2>1, <3>1, <3>2, InvFacts, NewDayGood, InstallStep
    <3>4. Atomic!OpenDay
      <4>1. job[w].day \in 1 .. today
        BY <2>1 DEF Day
      <4>2. db' = WithNewDay(db, job[w].day)
        BY <3>2 DEF Install
      <4>3. QED
        BY <2>3, <3>1, <4>1, <4>2, SameRest DEF Atomic!OpenDay
    <3>5. QED
      BY <3>3, <3>4 DEF Refines, Atomic!Next
  <2>4. QED
    BY <1>2, <2>2, <2>3 DEF InsertDrawer
<1>3. QED
  BY <1>1, <1>2

\* Closing: of an open drawer it is AtomicLedger's CloseDay, of any other
\* nothing, although the answer is the same.
LEMMA CloseStep ==
    ASSUME Inv, NEW w \in Worker, RequestClose(w) \/ CloseDrawer(w)
    PROVE  Inv' /\ Refines
<1>1. CASE RequestClose(w)
  <2>1. PICK day \in Day, counted \in Counts :
            Accept(w, [day |-> day, counted |-> counted], "closeDrawer")
    BY <1>1 DEF RequestClose
  <2>2. [day |-> day, counted |-> counted] \in CloseJob
    BY DEF CloseJob
  <2>3. /\ RequestsTypeOK' /\ Others(w)
        /\ pc[w] = "idle" /\ pc'[w] = "closeDrawer" /\ today' = today
    BY <2>1, <2>2, InvFacts, AcceptStep
  <2>4. UNCHANGED walVars
    BY <1>1 DEF RequestClose
  <2>5. Inv'
    BY <2>3, <2>4, ReadStep DEF WritingPc
  <2>6. QED
    BY <2>3, <2>4, <2>5 DEF Refines, Books, walVars
<1>2. CASE CloseDrawer(w)
  <2>1. job[w].day \in Day /\ job[w].counted \in Counts
    BY <1>2, InvFacts, JobFacts DEF CloseDrawer
  <2>2. /\ RequestsTypeOK' /\ Others(w)
        /\ pc[w] = "closeDrawer" /\ pc'[w] = "idle" /\ today' = today
    BY <1>2, InvFacts, AnswerStep DEF CloseDrawer
  <2>3. CASE UNCHANGED walVars
    BY <2>2, <2>3, ReadStep DEF WritingPc, Refines, Books, walVars
  <2>4. CASE /\ db.drawer[job[w].day].status = "open"
             /\ Autocommit(w, WithClosed(db, job[w].day, job[w].counted))
    <3>1. LockFree /\ Install(w, WithClosed(db, job[w].day, job[w].counted))
      BY <2>4 DEF Autocommit
    <3>2. Inv'
      BY <2>1, <2>2, <3>1, InvFacts, ClosedGood, InstallStep
    <3>3. db' = WithClosed(db, job[w].day, job[w].counted)
      BY <3>1 DEF Install
    <3>4. Atomic!CloseDay
      BY <2>1, <2>2, <2>4, <3>3, SameRest DEF Atomic!CloseDay, Atomic!Day, Day
    <3>5. QED
      BY <3>2, <3>4 DEF Refines, Atomic!Next
  <2>5. QED
    BY <1>2, <2>3, <2>4 DEF CloseDrawer
<1>3. QED
  BY <1>1, <1>2

\* A delivery is one statement.
LEMMA UpdateStockStep ==
    ASSUME Inv, NEW w \in Worker, UpdateStock(w)
    PROVE  Inv' /\ Refines
<1>1. PICK delivery \in Deliveries :
          /\ Autocommit(w, WithStock(db, delivery))
          /\ Answer(w, "ok")
  BY DEF UpdateStock
<1>2. RequestsTypeOK' /\ Others(w) /\ pc'[w] = "idle" /\ today' = today
  BY <1>1, InvFacts, AnswerStep
<1>3. LockFree /\ Install(w, WithStock(db, delivery))
  BY <1>1 DEF Autocommit
<1>4. Inv'
  BY <1>2, <1>3, InvFacts, StockGood, InstallStep
<1>5. Atomic!Deliver
  BY <1>2, <1>3, SameRest DEF Install, Atomic!Deliver
<1>6. QED
  BY <1>4, <1>5 DEF Refines, Atomic!Next

\* Midnight changes no row; requests in flight keep the day they have read.
LEMMA MidnightStep ==
    ASSUME Inv, Midnight
    PROVE  Inv' /\ Refines
<1>1. /\ UNCHANGED <<db, pending, writer, snapshot, pc, job, resp>>
      /\ today \in Day /\ today' = today + 1 /\ today < MaxDay
  BY InvFacts DEF Midnight, walVars, reqVars, RequestsTypeOK
<1>2. today' \in Day /\ today <= today'
  BY <1>1, DayAssumption DEF Day
<1>3. \A w \in Worker : JobTypeOK(w)'
  <2> SUFFICES ASSUME NEW w \in Worker PROVE JobTypeOK(w)'
    OBVIOUS
  <2>1. JobTypeOK(w)
    BY InvFacts DEF RequestsTypeOK
  <2>2. \A n \in Day : n <= today => n <= today'
    BY <1>1, <1>2 DEF Day
  <2>3. QED
    BY <1>1, <2>1, <2>2 DEF JobTypeOK, SaleJob, DayJob
<1>4. TypeOK'
  BY <1>1, <1>2, <1>3 DEF Inv, TypeOK, WalTypeOK, RequestsTypeOK
<1>5. IsolationInv' /\ DrawerBalances'
  BY <1>1 DEF Inv, IsolationInv, LockInv, LockFree, PendingInv, DrawerBalances
<1>6. Atomic!Midnight
  BY <1>1 DEF Atomic!Midnight
<1>7. QED
  BY <1>4, <1>5, <1>6 DEF Inv, Refines, Atomic!Next

\* The seeded books satisfy the invariant and are where AtomicLedger starts.
LEMMA InitStep ==
    ASSUME Init
    PROVE  Inv /\ Atomic!Init
<1>1. Good(Seeded)
  <2>1. NoRow \in DrawerRow /\ Balanced(NoRow)
    BY DEF NoRow, DrawerRow, Balanced
  <2>2. [d \in Day |-> NoRow] \in [Day -> DrawerRow] /\ 1 \in Day
    BY <2>1, DayAssumption DEF Day
  <2>3. NewRow(0, 0, 0) \in DrawerRow /\ Balanced(NewRow(0, 0, 0))
    BY NewRowBalanced
  <2>4. /\ Seeded.drawer \in [Day -> DrawerRow]
        /\ \A day \in Day : Balanced(Seeded.drawer[day])
    BY <2>1, <2>2, <2>3 DEF Seeded
  <2>5. Seeded \in Databases
    BY <2>4 DEF Seeded, Databases
  <2>6. QED
    BY <2>4, <2>5 DEF Good
<1>2. TypeOK
  BY <1>1, DayAssumption
     DEF Init, WalInit, Good, TypeOK, WalTypeOK, RequestsTypeOK, JobTypeOK, Day, SalePc,
         ExpensePc
<1>3. IsolationInv
  BY NoWorkerAssumption
     DEF Init, WalInit, IsolationInv, LockInv, LockFree, PendingInv, WritingPc
<1>4. DrawerBalances
  BY <1>1 DEF Init, WalInit, Good, Balanced, DrawerBalances
<1>5. Atomic!Init
  BY SameRest DEF Init, WalInit, Atomic!Init
<1>6. QED
  BY <1>2, <1>3, <1>4, <1>5 DEF Inv

\* Every step preserves the invariant and refines.
LEMMA NextStep ==
    ASSUME Inv, [Next]_vars
    PROVE  Inv' /\ Refines
<1>1. CASE UNCHANGED vars
  BY <1>1
     DEF vars, Inv, TypeOK, WalTypeOK, RequestsTypeOK, JobTypeOK, IsolationInv, LockInv,
         LockFree, PendingInv, DrawerBalances, Refines, Books
<1>2. ASSUME NEW w \in Worker, Request(w) PROVE Inv' /\ Refines
  BY <1>2, RequestSaleStep, ExpenseStep, DrawerStep, CloseStep, UpdateStockStep DEF Request
<1>3. ASSUME NEW w \in Worker, Serve(w) PROVE Inv' /\ Refines
  <2>1. CASE UpgradeRefused(w) \/ LockTimeout(w)
    BY <2>1, FailInv DEF UpgradeRefused, LockTimeout, Refines, Books
  <2>2. QED
    BY <1>3, <2>1, SaleStatementStep, UpdateDrawerStep, ExpenseStep, DrawerStep, CloseStep
       DEF Serve
<1>4. ASSUME NEW w \in Worker, Crash(w) PROVE Inv' /\ Refines
  BY <1>4, FailInv DEF Crash, Refines, Books
<1>5. CASE Midnight
  BY <1>5, MidnightStep
<1>6. QED
  BY <1>1, <1>2, <1>3, <1>4, <1>5 DEF Next

\* The invariant holds throughout.
LEMMA AlwaysInv == Spec => []Inv
<1>1. Init => Inv
  BY InitStep
<1>2. Inv /\ [Next]_vars => Inv'
  BY NextStep
<1>3. QED
  BY <1>1, <1>2, PTL DEF Spec

-----------------------------------------------------------------------------
(***************************************************************************)
(* Theorems                                                                *)
(***************************************************************************)

\* Every table and every request variable keeps its type.
THEOREM TypeCorrect == Spec => []TypeOK
<1>1. Inv => TypeOK
  BY DEF Inv
<1>2. QED
  BY <1>1, AlwaysInv, PTL

\* A transaction of createCheckout or Expense::create is alone from its first
\* INSERT on, and what it will commit is what it has written upon the books.
THEOREM Isolation == Spec => []IsolationInv
<1>1. Inv => IsolationInv
  BY DEF Inv
<1>2. QED
  BY <1>1, AlwaysInv, PTL

\* The expected balance of every open drawer is right, although three handlers
\* keep it and three insert its row.
THEOREM Balance == Spec => []DrawerBalances
<1>1. Inv => DrawerBalances
  BY DEF Inv
<1>2. QED
  BY <1>1, AlwaysInv, PTL

\* The concurrent ledger implements the atomic one: interleaved, failed and
\* crashed requests, and midnight in the middle of them, leave books that
\* whole sales, expenses, openings, closings and deliveries leave.
THEOREM Refinement == Spec => AtomicSpec
<1>1. Init => Atomic!Init
  BY InitStep
<1>2. Inv /\ [Next]_vars => [Atomic!Next]_(Atomic!vars)
  BY NextStep DEF Refines, Books, Atomic!vars
<1>3. QED
  BY <1>1, <1>2, AlwaysInv, PTL DEF Spec, AtomicSpec, Atomic!Spec

\* What becomes of the row of a day: once there, it stays and nothing is taken
\* from what was booked on it, and once closed it stays as it is.
Grown(old, new) ==
    /\ old.status # "none" =>
        new.status # "none" /\ old.cash <= new.cash /\ old.expenses <= new.expenses
    /\ old.status = "closed" => new = old

\* Books of which every row has grown from that of d.
GrownBooks(d, e) == Good(e) /\ \A day \in Day : Grown(d.drawer[day], e.drawer[day])

\* A sale and an expense add to the row.
LEMMA RowWithSaleGrown ==
    ASSUME NEW row \in DrawerRow, NEW sale \in AnySale, row.status # "closed"
    PROVE  Grown(row, RowWithSale(row, sale))
<1>1. CartTotal(sale.cart) \in Nat
  BY CartSums
<1>2. row.cash <= row.cash + CartTotal(sale.cart) /\ row.cash <= row.cash
  BY <1>1 DEF DrawerRow
<1>3. row.expenses <= row.expenses
  BY DEF DrawerRow
<1>4. QED
  BY <1>2, <1>3 DEF Grown, RowWithSale, NewRow, DrawerRow

LEMMA RowWithExpenseGrown ==
    ASSUME NEW row \in DrawerRow, NEW amount \in Nat, row.status # "closed"
    PROVE  Grown(row, RowWithExpense(row, amount))
<1>1. row.expenses <= row.expenses + amount /\ row.cash <= row.cash
  BY DEF DrawerRow
<1>2. QED
  BY <1>1 DEF Grown, RowWithExpense, NewRow, DrawerRow

\* A row that does not change has grown, and books that only keep the drawers.
LEMMA SameDrawersGrown ==
    ASSUME NEW d, NEW e, Good(d), Good(e), e.drawer = d.drawer
    PROVE  GrownBooks(d, e)
BY DEF Good, Databases, DrawerRow, GrownBooks, Grown

\* Replacing one row by what it has grown into.
LEMMA RowGrown ==
    ASSUME NEW d, Good(d), NEW e, Good(e), NEW day \in Day, NEW row,
           e.drawer = [d.drawer EXCEPT ![day] = row], Grown(d.drawer[day], row)
    PROVE  GrownBooks(d, e)
<1>1. d.drawer \in [Day -> DrawerRow]
  BY DEF Good, Databases
<1>2. ASSUME NEW other \in Day PROVE Grown(d.drawer[other], e.drawer[other])
  <2>1. CASE other = day
    BY <1>1, <2>1
  <2>2. CASE other # day
    BY <1>1, <2>2 DEF Grown, DrawerRow
  <2>3. QED
    BY <2>1, <2>2
<1>3. QED
  BY <1>2 DEF GrownBooks

\* Whatever AtomicLedger does, rows only grow, and open ones balance.
LEMMA AtomicGrows ==
    ASSUME Good(db), today \in Day, Atomic!Next
    PROVE  GrownBooks(db, db') /\ today' \in Day
<1>1. db \in Databases /\ db.drawer \in [Day -> DrawerRow]
  BY DEF Good, Databases
<1>2. CASE Atomic!Sell
  <2>1. PICK sale \in AnySale, stamp \in 1 .. today :
            /\ db.drawer[today].status # "closed"
            /\ db' = WithSale(RungUp(db, sale, stamp), sale, today)
            /\ today' = today
    BY <1>2, SameSale DEF Atomic!Sell, AnySale
  <2>2. stamp \in Day
    BY <2>1, DayAssumption DEF Day
  <2>3. RungUp(db, sale, stamp) \in Databases /\ RungUp(db, sale, stamp).drawer = db.drawer
    BY <1>1, <2>2, RungUpType
  <2>4. Good(db')
    BY <2>1, <2>2, SaleGood
  <2>5. db'.drawer = [db.drawer EXCEPT ![today] = RowWithSale(db.drawer[today], sale)]
    BY <2>1, <2>3 DEF WithSale, Databases
  <2>6. Grown(db.drawer[today], RowWithSale(db.drawer[today], sale))
    BY <1>1, <2>1, RowWithSaleGrown
  <2>7. QED
    BY <2>1, <2>4, <2>5, <2>6, RowGrown
<1>3. CASE Atomic!Spend
  <2>1. PICK spending \in Spendings :
            /\ db.drawer[spending.date].status # "closed"
            /\ db' = WithSpending(WithExpense(db, spending), spending)
            /\ today' = today
    BY <1>3, SameSpending DEF Atomic!Spend
  <2>2. spending.date \in Day /\ spending.amount \in Nat
    BY RequestAssumption DEF Spending
  <2>3. /\ WithExpense(db, spending) \in Databases
        /\ WithExpense(db, spending).drawer = db.drawer
    BY <1>1, WithExpenseType
  <2>4. Good(db')
    BY <2>1, SpendingGood
  <2>5. db'.drawer = [db.drawer EXCEPT ![spending.date] =
                         RowWithExpense(db.drawer[spending.date], spending.amount)]
    BY <2>1, <2>3 DEF WithSpending, Databases
  <2>6. Grown(db.drawer[spending.date],
              RowWithExpense(db.drawer[spending.date], spending.amount))
    BY <1>1, <2>1, <2>2, RowWithExpenseGrown
  <2>7. QED
    BY <2>1, <2>2, <2>4, <2>5, <2>6, RowGrown
<1>4. CASE Atomic!OpenDay
  <2>1. PICK day \in 1 .. today :
            /\ db.drawer[day].status = "none"
            /\ db' = WithNewDay(db, day)
            /\ today' = today
    BY <1>4, SameRest DEF Atomic!OpenDay
  <2>2. day \in Day
    BY <2>1, DayAssumption DEF Day
  <2>3. Good(db')
    BY <2>1, <2>2, NewDayGood
  <2>4. db'.drawer = [db.drawer EXCEPT ![day] = NewRow(0, 0, 0)]
    BY <1>1, <2>1 DEF WithNewDay, Databases
  <2>5. Grown(db.drawer[day], NewRow(0, 0, 0))
    BY <2>1 DEF Grown
  <2>6. QED
    BY <2>1, <2>2, <2>3, <2>4, <2>5, RowGrown
<1>5. CASE Atomic!CloseDay
  <2>1. PICK day \in Day, counted \in Counts :
            /\ db.drawer[day].status = "open"
            /\ db' = WithClosed(db, day, counted)
            /\ today' = today
    BY <1>5, SameRest DEF Atomic!CloseDay, Atomic!Day, Day
  <2> DEFINE row == [db.drawer[day] EXCEPT !.status = "closed", !.closing = counted]
  <2>2. Good(db')
    BY <2>1, ClosedGood
  <2>3. db'.drawer = [db.drawer EXCEPT ![day] = row]
    BY <1>1, <2>1 DEF WithClosed, Databases
  <2>4. Grown(db.drawer[day], row)
    BY <1>1, <2>1 DEF Grown, DrawerRow
  <2>5. QED
    BY <2>1, <2>2, <2>3, <2>4, RowGrown
<1>6. CASE Atomic!Deliver
  <2>1. PICK delivery \in Deliveries : db' = WithStock(db, delivery) /\ today' = today
    BY <1>6, SameRest DEF Atomic!Deliver
  <2>2. Good(db')
    BY <2>1, StockGood
  <2>3. db'.drawer = db.drawer
    BY <1>1, <2>1 DEF WithStock, Databases
  <2>4. QED
    BY <2>1, <2>2, <2>3, SameDrawersGrown
<1>7. CASE Atomic!Midnight
  BY <1>7, SameDrawersGrown, DayAssumption DEF Atomic!Midnight, Day
<1>8. QED
  BY <1>2, <1>3, <1>4, <1>5, <1>6, <1>7 DEF Atomic!Next

\* A drawer keeps the figures it was closed with, whatever was in flight.
THEOREM ClosedIsFrozen == Spec => ClosedDrawerFrozen
<1> DEFINE A == \A day \in Day : db.drawer[day].status = "closed" =>
                  db'.drawer[day] = db.drawer[day]
<1>1. ASSUME Inv, [Next]_vars PROVE A
  <2>1. Good(db) /\ today \in Day /\ Refines
    BY <1>1, InvFacts, NextStep DEF RequestsTypeOK
  <2>2. CASE db' = db
    BY <2>2
  <2>3. CASE Atomic!Next
    BY <2>1, <2>3, AtomicGrows DEF GrownBooks, Grown
  <2>4. QED
    BY <2>1, <2>2, <2>3 DEF Refines, Books
<1>2. Inv /\ [Next]_vars => [A]_db
  BY <1>1
<1>3. QED
  BY <1>2, AlwaysInv, PTL DEF Spec, ClosedDrawerFrozen

-----------------------------------------------------------------------------
(***************************************************************************)
(* The sums over the tables.                                               *)
(***************************************************************************)

\* DrawersMatchTables, SpentBalances and InvoicesComplete, of books d.
UnopenedEmpty(d) == \A day \in Day : d.drawer[day].status = "none" => d.drawer[day] = NoRow

SpentMatches(d) ==
    \A c \in Client : d.spent[c] = SumFunctionOnSet(Totals(d), InvoicesOf(d, c))

CartsMatch(d) ==
    /\ \A i \in DOMAIN d.invoices :
           d.invoices[i].total = SumFunctionOnSet(Prices(d), LinesOf(d, i))
    /\ \A k \in DOMAIN d.items : d.items[k].invoice \in DOMAIN d.invoices

Agree(d) ==
    /\ SalesInDrawers(d)
    /\ ExpensesInDrawers(d)
    /\ UnopenedEmpty(d)
    /\ SpentMatches(d)
    /\ CartsMatch(d)

\* The rows a condition selects, of the first n and of one more.
Selected(n, D, E, last) ==
    /\ D \in SUBSET (1 .. n) /\ E \in SUBSET (1 .. (n + 1))
    /\ \A i \in 1 .. n : i \in E <=> i \in D
    /\ last \in BOOLEAN /\ (n + 1 \in E <=> last)

\* A table of n rows to which one is appended.
LEMMA SumExtended ==
    ASSUME NEW n \in Nat, NEW D, NEW E, NEW last, Selected(n, D, E, last), NEW f, NEW g,
           \A i \in 1 .. n : f[i] \in Int /\ g[i] = f[i], g[n + 1] \in Int
    PROVE  /\ SumFunctionOnSet(g, E) = SumFunctionOnSet(f, D) + (IF last THEN g[n + 1] ELSE 0)
           /\ SumFunctionOnSet(f, D) \in Int
<1>1. D \in SUBSET (1 .. n) /\ last \in BOOLEAN
  BY DEF Selected
<1>2. IsFiniteSet(D)
  <2>1. IsFiniteSet(1 .. n)
    BY FS_Interval
  <2>2. QED
    BY <1>1, <2>1, FS_Subset
<1>3. E = IF last THEN D \cup {n + 1} ELSE D
  <2> DEFINE I == 1 .. n
  <2>1. \A i \in 1 .. (n + 1) : i \in I \/ i = n + 1
    OBVIOUS
  <2>2. /\ \A i \in E : i \in I \/ i = n + 1
        /\ \A i \in D : i \in I
        /\ \A i \in I : i \in E <=> i \in D
        /\ last \in BOOLEAN /\ (n + 1 \in E <=> last)
    BY <1>1, <2>1 DEF Selected
  <2> HIDE DEF I
  <2>3. QED
    BY <2>2
<1>4. SumFunctionOnSet(g, D) = SumFunctionOnSet(f, D)
  BY <1>1, <1>2, SumSame
<1>5. n + 1 \notin D /\ \A i \in D \cup {n + 1} : g[i] \in Int
  BY <1>1
<1>6. SumFunctionOnSet(g, D \cup {n + 1}) = g[n + 1] + SumFunctionOnSet(g, D)
  BY <1>2, <1>5, SumAdd
<1>7. SumFunctionOnSet(f, D) \in Int
  BY <1>1, <1>2, SumType
<1>8. QED
  BY <1>1, <1>3, <1>4, <1>6, <1>7

\* A column of cash_reconciliation in which one day's entry changes.
LEMMA ColumnChanged ==
    ASSUME NEW f \in [Day -> Nat], NEW g \in [Day -> Nat], NEW day \in Day,
           \A k \in Day \ {day} : g[k] = f[k]
    PROVE  /\ SumFunction(g) = SumFunction(f) + (g[day] - f[day])
           /\ SumFunction(f) \in Int
<1>1. IsFiniteSet(Day)
  BY FS_Interval, DayAssumption DEF Day
<1>2. SumFunctionOnSet(g, Day) = SumFunctionOnSet(f, Day) + (g[day] - f[day])
  BY <1>1, SumChange
<1>3. SumFunctionOnSet(f, Day) \in Int
  BY <1>1, SumType
<1>4. DOMAIN f = Day /\ DOMAIN g = Day
  OBVIOUS
<1>5. QED
  BY <1>2, <1>3, <1>4 DEF SumFunction

\* The rows a sale inserts.
InvoiceRow(sale, stamp) == [day |-> stamp, client |-> sale.client, method |-> sale.method,
                            total |-> CartTotal(sale.cart)]

CartRows(sale, invoice) ==
    [i \in DOMAIN sale.cart |-> [invoice |-> invoice, line |-> sale.cart[i],
                                 commission |-> Commission(sale.cart[i])]]

\* A table of n rows and what it is when one more is inserted, or several are.
OneMore(n, old, new, row) ==
    /\ n \in Nat /\ DOMAIN old = 1 .. n /\ DOMAIN new = 1 .. (n + 1)
    /\ \A i \in 1 .. n : new[i] = old[i]
    /\ new[n + 1] = row

Longer(m, old, new, k, rows) ==
    /\ m \in Nat /\ DOMAIN old = 1 .. m
    /\ k \in Nat /\ DOMAIN rows = 1 .. k
    /\ DOMAIN new = 1 .. (m + k)
    /\ \A i \in 1 .. m : new[i] = old[i]
    /\ \A j \in 1 .. k : new[m + j] = rows[j]

LEMMA AppendIsOneMore ==
    ASSUME NEW T, NEW old \in Seq(T), NEW row \in T
    PROVE  /\ OneMore(Len(old), old, Append(old, row), row)
           /\ \A i \in 1 .. Len(old) : old[i] \in T
BY DEF OneMore

LEMMA ConcatIsLonger ==
    ASSUME NEW T, NEW old \in Seq(T), NEW rows \in Seq(T)
    PROVE  /\ Longer(Len(old), old, old \o rows, Len(rows), rows)
           /\ \A i \in 1 .. Len(old) : old[i] \in T
<1>1. /\ Len(old \o rows) = Len(old) + Len(rows)
      /\ \A i \in 1 .. Len(old) + Len(rows) :
             (old \o rows)[i] = IF i <= Len(old) THEN old[i] ELSE rows[i - Len(old)]
  BY ConcatProperties
<1>2. old \o rows \in Seq(T)
  BY ConcatProperties
<1>3. Len(old) \in Nat /\ Len(rows) \in Nat
  OBVIOUS
<1>4. \A j \in 1 .. Len(rows) : (old \o rows)[Len(old) + j] = rows[j]
  BY <1>1, <1>3
<1>5. \A i \in 1 .. Len(old) : (old \o rows)[i] = old[i]
  BY <1>1, <1>3
<1>6. QED
  BY <1>1, <1>2, <1>3, <1>4, <1>5 DEF Longer

\* A whole sale, field by field.
SaleFields(d, e, sale, stamp, day) ==
    /\ e.invoices = Append(d.invoices, InvoiceRow(sale, stamp))
    /\ e.items = d.items \o CartRows(sale, Len(d.invoices) + 1)
    /\ e.expenses = d.expenses
    /\ e.drawer = [d.drawer EXCEPT ![day] = RowWithSale(d.drawer[day], sale)]
    /\ e.spent = IF sale.client = NoClient THEN d.spent
                 ELSE [d.spent EXCEPT ![sale.client] =
                          d.spent[sale.client] + CartTotal(sale.cart)]

LEMMA SaleEffect ==
    ASSUME NEW d \in Databases, NEW sale \in AnySale, NEW stamp \in Day, NEW day \in Day
    PROVE  SaleFields(d, WithSale(RungUp(d, sale, stamp), sale, day), sale, stamp, day)
<1> DEFINE d1 == WithInvoice(d, sale, stamp)
           d2 == WithItems(d1, sale)
           d3 == WithSpent(d2, sale)
<1>1. /\ d1 \in Databases
      /\ d1.invoices = Append(d.invoices, InvoiceRow(sale, stamp))
      /\ d1.items = d.items /\ d1.expenses = d.expenses
      /\ d1.drawer = d.drawer /\ d1.spent = d.spent
  <2>1. d1 \in Databases
    BY WithInvoiceType
  <2>2. QED
    BY <2>1 DEF WithInvoice, InvoiceRow, Databases
<1>2. Len(d1.invoices) = Len(d.invoices) + 1
  BY <1>1 DEF Databases
<1> HIDE DEF d1
<1>3. /\ d2 \in Databases
      /\ d2.invoices = d1.invoices /\ d2.expenses = d1.expenses
      /\ d2.items = d.items \o CartRows(sale, Len(d.invoices) + 1)
      /\ d2.drawer = d.drawer /\ d2.spent = d.spent
  <2>1. d2 \in Databases
    BY <1>1, WithItemsType
  <2>2. /\ d2.invoices = d1.invoices /\ d2.expenses = d1.expenses
        /\ d2.items = d1.items \o CartRows(sale, Len(d1.invoices))
        /\ d2.drawer = d1.drawer /\ d2.spent = d1.spent
    BY <1>1 DEF WithItems, CartRows, Databases
  <2> HIDE DEF d2
  <2>3. QED
    BY <1>1, <1>2, <2>1, <2>2, Zenon
<1> HIDE DEF d2
<1>4. /\ d3 \in Databases
      /\ d3.invoices = d1.invoices /\ d3.expenses = d1.expenses
      /\ d3.items = d2.items /\ d3.drawer = d.drawer
      /\ d3.spent = IF sale.client = NoClient THEN d.spent
                    ELSE [d.spent EXCEPT ![sale.client] =
                             d.spent[sale.client] + CartTotal(sale.cart)]
  <2>1. d3 \in Databases
    BY <1>3, WithSpentType
  <2>2. QED
    BY <1>3, <2>1 DEF WithSpent, Databases
<1>5. RungUp(d, sale, stamp) = d3
  BY DEF RungUp, d2, d1
<1> HIDE DEF d3
<1>6. QED
  BY <1>1, <1>3, <1>4, <1>5 DEF SaleFields, WithSale, Databases

\* The same, of the rows of each table.
Sold(d, e, sale, stamp, day) ==
    /\ \E n, m, k \in Nat :
          /\ OneMore(n, d.invoices, e.invoices, InvoiceRow(sale, stamp))
          /\ \A i \in 1 .. n : d.invoices[i] \in Invoice
          /\ Longer(m, d.items, e.items, k, CartRows(sale, n + 1))
          /\ \A i \in 1 .. m : d.items[i] \in ItemRow
    /\ e.expenses = d.expenses
    /\ e.drawer[day] = RowWithSale(d.drawer[day], sale)
    /\ \A other \in Day \ {day} : e.drawer[other] = d.drawer[other]
    /\ \A c \in Client :
          e.spent[c] = IF sale.client = c THEN d.spent[c] + CartTotal(sale.cart)
                       ELSE d.spent[c]

LEMMA SaleTables ==
    ASSUME NEW d \in Databases, NEW sale \in AnySale, NEW stamp \in Day, NEW day \in Day,
           NEW e, SaleFields(d, e, sale, stamp, day)
    PROVE  Sold(d, e, sale, stamp, day)
<1> DEFINE n == Len(d.invoices)
           m == Len(d.items)
           inv == InvoiceRow(sale, stamp)
           rows == CartRows(sale, n + 1)
           k == Len(rows)
<1>2. /\ d.invoices \in Seq(Invoice) /\ d.items \in Seq(ItemRow)
      /\ d.drawer \in [Day -> DrawerRow] /\ d.spent \in [Client -> Nat]
  BY DEF Databases
<1>3. inv \in Invoice
  BY CartSums, RequestAssumption DEF InvoiceRow, Invoice, AnySale, Sale
<1>4. n \in Nat /\ m \in Nat
  BY <1>2
<1>5. rows \in Seq(ItemRow)
  <2>1. sale.cart \in Seq(CartLine)
    BY RequestAssumption DEF AnySale, Sale
  <2>2. /\ DOMAIN sale.cart = 1 .. Len(sale.cart) /\ Len(sale.cart) \in Nat
        /\ \A i \in 1 .. Len(sale.cart) : sale.cart[i] \in CartLine
    BY <2>1
  <2> HIDE DEF n
  <2>3. n + 1 \in Nat
    BY <1>4
  <2>4. \A i \in 1 .. Len(sale.cart) :
           [invoice |-> n + 1, line |-> sale.cart[i],
            commission |-> Commission(sale.cart[i])] \in ItemRow
    BY <2>2, <2>3, CommissionType DEF ItemRow
  <2>5. rows \in [1 .. Len(sale.cart) -> ItemRow]
    BY <2>2, <2>4 DEF CartRows
  <2>6. QED
    BY <2>2, <2>5, SeqDef
<1>1. /\ e.invoices = Append(d.invoices, inv) /\ e.items = d.items \o rows
      /\ e.expenses = d.expenses
      /\ e.drawer = [d.drawer EXCEPT ![day] = RowWithSale(d.drawer[day], sale)]
      /\ e.spent = IF sale.client = NoClient THEN d.spent
                   ELSE [d.spent EXCEPT ![sale.client] =
                            d.spent[sale.client] + CartTotal(sale.cart)]
  BY DEF SaleFields
<1> HIDE DEF inv, rows
<1>6. OneMore(n, d.invoices, e.invoices, inv) /\ \A i \in 1 .. n : d.invoices[i] \in Invoice
  BY <1>1, <1>2, <1>3, AppendIsOneMore
<1>7. Longer(m, d.items, e.items, k, rows) /\ \A i \in 1 .. m : d.items[i] \in ItemRow
  BY <1>1, <1>2, <1>5, ConcatIsLonger
<1>8. k \in Nat
  BY <1>5
<1>9. \A c \in Client :
         e.spent[c] = IF sale.client = c THEN d.spent[c] + CartTotal(sale.cart)
                      ELSE d.spent[c]
  BY <1>1, <1>2, AmountAssumption
<1>10. /\ e.drawer[day] = RowWithSale(d.drawer[day], sale)
       /\ \A other \in Day \ {day} : e.drawer[other] = d.drawer[other]
  BY <1>1, <1>2
<1> HIDE DEF n, m, k
<1>11. QED
  BY <1>1, <1>4, <1>6, <1>7, <1>8, <1>9, <1>10 DEF Sold, inv, rows

\* What a sale adds to the row of its drawer.
LEMMA SaleRow ==
    ASSUME NEW row \in DrawerRow, NEW sale \in AnySale, row.status # "closed",
           row.status = "none" => row = NoRow
    PROVE  LET new == RowWithSale(row, sale)
               total == CartTotal(sale.cart) IN
           /\ new.status = "open" /\ new.expenses = row.expenses
           /\ new.cash - row.cash = IF sale.method = "cash" THEN total ELSE 0
           /\ new.digital - row.digital \in 0 .. total
           /\ sale.method = "cash" => new.digital = row.digital
           /\ sale.method = "digital" => new.digital = row.digital + total
<1>1. CartTotal(sale.cart) \in Nat /\ sale.method \in {"cash", "digital", "other"}
  BY CartSums, RequestAssumption DEF AnySale, Sale, Method
<1>2. CASE row.status = "open"
  BY <1>1, <1>2 DEF RowWithSale, DrawerRow
<1>3. CASE row.status = "none"
  BY <1>1, <1>3 DEF RowWithSale, NewRow, NoRow
<1>4. QED
  BY <1>2, <1>3 DEF DrawerRow

\* The totals of the invoices a condition selects, before a sale and after it.
LEMMA SumAfterSale ==
    ASSUME NEW d, NEW e, NEW n, NEW row \in Invoice,
           OneMore(n, d.invoices, e.invoices, row),
           \A i \in 1 .. n : d.invoices[i] \in Invoice,
           NEW D, NEW E, NEW last, Selected(n, D, E, last)
    PROVE  /\ SumFunctionOnSet(Totals(e), E) =
                 SumFunctionOnSet(Totals(d), D) + (IF last THEN row.total ELSE 0)
           /\ SumFunctionOnSet(Totals(d), D) \in Int
<1>1. n \in Nat
  BY DEF OneMore
<1>2. /\ \A i \in 1 .. n : Totals(d)[i] \in Int /\ Totals(e)[i] = Totals(d)[i]
      /\ Totals(e)[n + 1] = row.total /\ Totals(e)[n + 1] \in Int
  BY DEF OneMore, Totals, Invoice
<1>3. QED
  BY <1>1, <1>2, SumExtended

LEMMA InvoiceRowType ==
    ASSUME NEW sale \in AnySale, NEW stamp \in Day
    PROVE  LET inv == InvoiceRow(sale, stamp) IN
           /\ inv \in Invoice
           /\ inv.total = CartTotal(sale.cart) /\ inv.method = sale.method
           /\ inv.client = sale.client
BY CartSums, RequestAssumption DEF InvoiceRow, Invoice, AnySale, Sale

\* The drawers still hold what was invoiced.
LEMMA SaleInDrawers ==
    ASSUME NEW d \in Databases, NEW e \in Databases, Agree(d),
           NEW sale \in AnySale, NEW stamp \in Day, NEW day \in Day,
           d.drawer[day].status # "closed", Sold(d, e, sale, stamp, day)
    PROVE  SalesInDrawers(e)
<1> DEFINE inv == InvoiceRow(sale, stamp)
           row == d.drawer[day]
           new == RowWithSale(row, sale)
           total == CartTotal(sale.cart)
<1>1. PICK n \in Nat : /\ OneMore(n, d.invoices, e.invoices, inv)
                       /\ \A i \in 1 .. n : d.invoices[i] \in Invoice
  BY DEF Sold
<1>2. /\ inv \in Invoice /\ inv.total = total /\ inv.method = sale.method
      /\ total \in Nat
  BY InvoiceRowType, CartSums, RequestAssumption DEF AnySale, Sale
<1>3. d.drawer \in [Day -> DrawerRow] /\ e.drawer \in [Day -> DrawerRow]
  BY DEF Databases
<1>4. e.drawer[day] = new /\ \A k \in Day \ {day} : e.drawer[k] = d.drawer[k]
  BY DEF Sold
<1>5. /\ new.cash - row.cash = IF sale.method = "cash" THEN total ELSE 0
      /\ new.digital - row.digital \in 0 .. total
      /\ sale.method = "cash" => new.digital = row.digital
      /\ sale.method = "digital" => new.digital = row.digital + total
      /\ new \in DrawerRow /\ row \in DrawerRow
  BY <1>3, <1>4, SaleRow DEF Agree, UnopenedEmpty
<1>6. SalesInDrawers(d)
  BY DEF Agree
<1> HIDE DEF inv, new, row, total
<1>7. ASSUME NEW methods
      PROVE  /\ SumFunctionOnSet(Totals(e), InvoicesBy(e, methods)) =
                   SumFunctionOnSet(Totals(d), InvoicesBy(d, methods))
                       + (IF sale.method \in methods THEN total ELSE 0)
             /\ SumFunctionOnSet(Totals(d), InvoicesBy(d, methods)) \in Int
  <2> DEFINE last == sale.method \in methods
             D == InvoicesBy(d, methods)
             E == InvoicesBy(e, methods)
  <2>1. Selected(n, D, E, last)
    BY <1>1, <1>2 DEF Selected, OneMore, InvoicesBy
  <2> HIDE DEF last, D, E
  <2>2. /\ SumFunctionOnSet(Totals(e), E) =
              SumFunctionOnSet(Totals(d), D) + (IF last THEN inv.total ELSE 0)
        /\ SumFunctionOnSet(Totals(d), D) \in Int
    BY <1>1, <1>2, <2>1, SumAfterSale
  <2>3. QED
    BY <1>2, <2>2 DEF last, D, E
<1>8. /\ SumFunction([k \in Day |-> e.drawer[k].cash]) =
             SumFunction([k \in Day |-> d.drawer[k].cash]) + (new.cash - row.cash)
      /\ SumFunction([k \in Day |-> d.drawer[k].cash]) \in Int
  <2> DEFINE f == [k \in Day |-> d.drawer[k].cash]
             g == [k \in Day |-> e.drawer[k].cash]
  <2>1. f \in [Day -> Nat] /\ g \in [Day -> Nat] /\ \A k \in Day \ {day} : g[k] = f[k]
    BY <1>3, <1>4 DEF DrawerRow
  <2>2. g[day] = new.cash /\ f[day] = row.cash
    BY <1>4 DEF row
  <2> HIDE DEF f, g
  <2>3. SumFunction(g) = SumFunction(f) + (g[day] - f[day]) /\ SumFunction(f) \in Int
    BY <2>1, ColumnChanged
  <2>4. QED
    BY <2>2, <2>3 DEF f, g
<1>9. /\ SumFunction([k \in Day |-> e.drawer[k].digital]) =
             SumFunction([k \in Day |-> d.drawer[k].digital]) + (new.digital - row.digital)
      /\ SumFunction([k \in Day |-> d.drawer[k].digital]) \in Int
  <2> DEFINE f == [k \in Day |-> d.drawer[k].digital]
             g == [k \in Day |-> e.drawer[k].digital]
  <2>1. f \in [Day -> Nat] /\ g \in [Day -> Nat] /\ \A k \in Day \ {day} : g[k] = f[k]
    BY <1>3, <1>4 DEF DrawerRow
  <2>2. g[day] = new.digital /\ f[day] = row.digital
    BY <1>4 DEF row
  <2> HIDE DEF f, g
  <2>3. SumFunction(g) = SumFunction(f) + (g[day] - f[day]) /\ SumFunction(f) \in Int
    BY <2>1, ColumnChanged
  <2>4. QED
    BY <2>2, <2>3 DEF f, g
<1>10. sale.method \in {"cash", "digital", "other"}
  BY RequestAssumption DEF AnySale, Sale, Method
<1>11. QED
  BY <1>2, <1>5, <1>6, <1>7, <1>8, <1>9, <1>10 DEF SalesInDrawers, DrawerRow

\* What a sale adds to a client's total is what the client was invoiced.
LEMMA SaleSpent ==
    ASSUME NEW d \in Databases, NEW e \in Databases, Agree(d),
           NEW sale \in AnySale, NEW stamp \in Day, NEW day \in Day,
           Sold(d, e, sale, stamp, day)
    PROVE  SpentMatches(e)
<1> DEFINE inv == InvoiceRow(sale, stamp)
           total == CartTotal(sale.cart)
<1>1. PICK n \in Nat : /\ OneMore(n, d.invoices, e.invoices, inv)
                       /\ \A i \in 1 .. n : d.invoices[i] \in Invoice
  BY DEF Sold
<1>2. /\ inv \in Invoice /\ inv.total = total /\ inv.client = sale.client
      /\ total \in Nat
  BY InvoiceRowType, CartSums, RequestAssumption DEF AnySale, Sale
<1>3. \A c \in Client :
         /\ d.spent[c] = SumFunctionOnSet(Totals(d), InvoicesOf(d, c))
         /\ e.spent[c] = IF sale.client = c THEN d.spent[c] + total ELSE d.spent[c]
  BY DEF Sold, Agree, SpentMatches
<1> HIDE DEF inv, total
<1>4. ASSUME NEW c \in Client
      PROVE  e.spent[c] = SumFunctionOnSet(Totals(e), InvoicesOf(e, c))
  <2> DEFINE last == sale.client = c
             D == InvoicesOf(d, c)
             E == InvoicesOf(e, c)
  <2>1. Selected(n, D, E, last)
    BY <1>1, <1>2 DEF Selected, OneMore, InvoicesOf
  <2> HIDE DEF last, D, E
  <2>2. /\ SumFunctionOnSet(Totals(e), E) =
              SumFunctionOnSet(Totals(d), D) + (IF last THEN inv.total ELSE 0)
        /\ SumFunctionOnSet(Totals(d), D) \in Int
    BY <1>1, <1>2, <2>1, SumAfterSale
  <2>3. QED
    BY <1>2, <1>3, <2>2 DEF last, D, E
<1>5. QED
  BY <1>4 DEF SpentMatches

\* The rows of a cart are found under its invoice, and no others.
LEMMA LongerIndex ==
    ASSUME NEW m, NEW old, NEW new, NEW k, NEW rows, Longer(m, old, new, k, rows),
           NEW x \in DOMAIN new
    PROVE  \/ x \in 1 .. m /\ new[x] = old[x]
           \/ \E j \in 1 .. k : x = m + j /\ new[x] = rows[j]
<1>1. m \in Nat /\ k \in Nat /\ x \in 1 .. (m + k)
  BY DEF Longer
<1>2. CASE x \in 1 .. m
  BY <1>2 DEF Longer
<1>3. CASE x \notin 1 .. m
  <2>1. x - m \in 1 .. k /\ x = m + (x - m)
    BY <1>1, <1>3
  <2>2. new[m + (x - m)] = rows[x - m]
    BY <2>1 DEF Longer
  <2>3. QED
    BY <2>1, <2>2
<1>4. QED
  BY <1>2, <1>3

\* The rows of d.items are unchanged, and the new ones are those of the cart.
LEMMA SaleLines ==
    ASSUME NEW d \in Databases, NEW e \in Databases, Agree(d),
           NEW sale \in AnySale, NEW stamp \in Day, NEW day \in Day,
           Sold(d, e, sale, stamp, day)
    PROVE  CartsMatch(e)
<1> DEFINE inv == InvoiceRow(sale, stamp)
           cart == sale.cart
<1>1. PICK n, m, k \in Nat :
         /\ OneMore(n, d.invoices, e.invoices, inv)
         /\ Longer(m, d.items, e.items, k, CartRows(sale, n + 1))
         /\ \A i \in 1 .. m : d.items[i] \in ItemRow
  BY DEF Sold
<1> DEFINE rows == CartRows(sale, n + 1)
           lines == [i \in DOMAIN cart |-> cart[i].price * cart[i].qty]
<1>2. inv.total = CartTotal(cart)
  BY InvoiceRowType
<1>3. /\ DOMAIN cart = 1 .. k /\ DOMAIN lines = 1 .. k
      /\ \A j \in 1 .. k : /\ rows[j].invoice = n + 1
                           /\ lines[j] = rows[j].line.price * rows[j].line.qty
      /\ \A j \in 1 .. k : lines[j] \in Nat
  <2>1. DOMAIN rows = 1 .. k
    BY <1>1 DEF Longer
  <2>2. DOMAIN cart = 1 .. k
    BY <2>1 DEF CartRows
  <2>3. \A j \in 1 .. k : rows[j].invoice = n + 1 /\ rows[j].line = cart[j]
    BY <2>2 DEF CartRows
  <2>4. cart \in Seq(CartLine)
    BY RequestAssumption DEF AnySale, Sale
  <2>5. \A j \in 1 .. k : cart[j] \in CartLine
    BY <2>2, <2>4
  <2> HIDE DEF rows, cart
  <2>6. \A j \in 1 .. k : cart[j].price \in Nat /\ cart[j].qty \in Nat
    BY <2>5 DEF CartLine
  <2>7. \A j \in 1 .. k : cart[j].price * cart[j].qty \in Nat
    BY <2>6
  <2>8. QED
    BY <2>2, <2>3, <2>7
<1>4. CartTotal(cart) = SumFunctionOnSet(lines, 1 .. k)
  BY <1>3 DEF CartTotal, SumFunction
<1>5. CartsMatch(d)
  BY DEF Agree
<1> HIDE DEF inv, cart, rows, lines
<1>6. /\ DOMAIN d.invoices = 1 .. n /\ DOMAIN e.invoices = 1 .. (n + 1)
      /\ \A i \in 1 .. n : e.invoices[i] = d.invoices[i]
      /\ e.invoices[n + 1] = inv
  BY <1>1 DEF OneMore
<1>7. /\ DOMAIN d.items = 1 .. m /\ DOMAIN e.items = 1 .. (m + k)
      /\ \A i \in 1 .. m : e.items[i] = d.items[i]
      /\ \A j \in 1 .. k : e.items[m + j] = rows[j]
  BY <1>1 DEF Longer, rows
<1>8. \A x \in DOMAIN e.items :
         \/ x \in 1 .. m /\ e.items[x] = d.items[x]
         \/ \E j \in 1 .. k : x = m + j /\ e.items[x] = rows[j]
  <2>1. Longer(m, d.items, e.items, k, rows)
    BY <1>1 DEF rows
  <2>2. ASSUME NEW x \in DOMAIN e.items
        PROVE  \/ x \in 1 .. m /\ e.items[x] = d.items[x]
               \/ \E j \in 1 .. k : x = m + j /\ e.items[x] = rows[j]
    BY <2>1, LongerIndex
  <2>3. QED
    BY <2>2
<1>9. \A x \in 1 .. m : d.items[x].invoice \in 1 .. n
  BY <1>5, <1>6, <1>7 DEF CartsMatch
<1>10. /\ 1 .. n \subseteq 1 .. (n + 1) /\ n + 1 \in 1 .. (n + 1) /\ n + 1 \notin 1 .. n
       /\ 1 .. m \subseteq 1 .. (m + k) /\ \A j \in 1 .. k : m + j \in 1 .. (m + k)
       /\ \A j \in 1 .. k : m + j \notin 1 .. m
       /\ \A i \in 1 .. (n + 1) : i \in 1 .. n \/ i = n + 1
  OBVIOUS
<1>11. ASSUME NEW i \in 1 .. n
       PROVE  e.invoices[i].total = SumFunctionOnSet(Prices(e), LinesOf(e, i))
  <2>1. LinesOf(e, i) = LinesOf(d, i)
    <3>1. ASSUME NEW x \in LinesOf(e, i) PROVE x \in LinesOf(d, i)
      <4>1. x \in DOMAIN e.items /\ e.items[x].invoice = i
        BY DEF LinesOf
      <4>2. \A j \in 1 .. k : rows[j].invoice # i
        BY <1>3, <1>10
      <4>3. x \in 1 .. m /\ e.items[x] = d.items[x]
        BY <1>8, <4>1, <4>2, Zenon
      <4>4. QED
        BY <1>7, <4>1, <4>3 DEF LinesOf
    <3>2. ASSUME NEW x \in LinesOf(d, i) PROVE x \in LinesOf(e, i)
      BY <1>7, <1>10 DEF LinesOf
    <3>3. QED
      BY <3>1, <3>2
  <2>2. LinesOf(d, i) \subseteq 1 .. m
    BY <1>7 DEF LinesOf
  <2>3. IsFiniteSet(LinesOf(d, i))
    <3>1. IsFiniteSet(1 .. m)
      BY FS_Interval
    <3>2. QED
      BY <2>2, <3>1, FS_Subset
  <2>4. \A x \in LinesOf(d, i) : Prices(e)[x] = Prices(d)[x]
    BY <1>7, <1>10, <2>2 DEF Prices
  <2>5. SumFunctionOnSet(Prices(e), LinesOf(d, i)) = SumFunctionOnSet(Prices(d), LinesOf(d, i))
    BY <2>3, <2>4, SumSame
  <2>6. QED
    BY <1>5, <1>6, <2>1, <2>5 DEF CartsMatch
<1>12. inv.total = SumFunctionOnSet(Prices(e), LinesOf(e, n + 1))
  <2> DEFINE h == [j \in 1 .. k |-> m + j]
  <2>1. Renames(h, 1 .. k, LinesOf(e, n + 1))
    <3>1. ASSUME NEW x \in LinesOf(e, n + 1) PROVE \E j \in 1 .. k : x = m + j
      <4>1. x \in DOMAIN e.items /\ e.items[x].invoice = n + 1
        BY DEF LinesOf
      <4>2. ~(x \in 1 .. m /\ e.items[x] = d.items[x])
        BY <1>9, <1>10, <4>1, Zenon
      <4>3. QED
        BY <1>8, <4>1, <4>2, Zenon
    <3>2. \A j \in 1 .. k : m + j \in LinesOf(e, n + 1)
      BY <1>3, <1>7, <1>10 DEF LinesOf
    <3>3. \A x, y \in 1 .. k : h[x] = h[y] => x = y
      OBVIOUS
    <3>4. LinesOf(e, n + 1) = {h[j] : j \in 1 .. k}
      BY <3>1, <3>2
    <3>5. QED
      BY <3>3, <3>4 DEF Renames
  <2>2. IsFiniteSet(1 .. k)
    BY FS_Interval
  <2>3. /\ \A x \in 1 .. k : lines[x] \in Int
        /\ \A x \in 1 .. k : Prices(e)[h[x]] = lines[x]
    <3>1. \A x \in 1 .. k : Prices(e)[m + x] = rows[x].line.price * rows[x].line.qty
      BY <1>7, <1>10 DEF Prices
    <3>2. \A x \in 1 .. k : h[x] = m + x
      OBVIOUS
    <3> HIDE DEF h
    <3>3. \A x \in 1 .. k : Prices(e)[h[x]] = lines[x]
      BY <1>3, <3>1, <3>2, Zenon
    <3>4. QED
      BY <1>3, <3>3
  <2> HIDE DEF h
  <2>4. SumFunctionOnSet(Prices(e), LinesOf(e, n + 1)) = SumFunctionOnSet(lines, 1 .. k)
    BY <2>1, <2>2, <2>3, SumRenamed
  <2>5. QED
    BY <1>2, <1>4, <2>4
<1>13. \A x \in DOMAIN e.items : e.items[x].invoice \in DOMAIN e.invoices
  <2> SUFFICES ASSUME NEW x \in DOMAIN e.items
               PROVE  e.items[x].invoice \in 1 .. (n + 1)
    BY <1>6
  <2>1. CASE x \in 1 .. m /\ e.items[x] = d.items[x]
    BY <1>9, <1>10, <2>1
  <2>2. CASE \E j \in 1 .. k : x = m + j /\ e.items[x] = rows[j]
    BY <1>3, <1>10, <2>2
  <2>3. QED
    BY <1>8, <2>1, <2>2
<1>14. QED
  BY <1>6, <1>10, <1>11, <1>12, <1>13 DEF CartsMatch

\* What a sale does not touch.
LEMMA SaleRest ==
    ASSUME NEW d \in Databases, NEW e \in Databases, Agree(d),
           NEW sale \in AnySale, NEW stamp \in Day, NEW day \in Day,
           d.drawer[day].status # "closed", Sold(d, e, sale, stamp, day)
    PROVE  ExpensesInDrawers(e) /\ UnopenedEmpty(e)
<1> DEFINE row == d.drawer[day]
           new == RowWithSale(row, sale)
<1>1. /\ e.expenses = d.expenses
      /\ e.drawer[day] = new /\ \A k \in Day \ {day} : e.drawer[k] = d.drawer[k]
  BY DEF Sold
<1>2. row \in DrawerRow
  BY DEF Databases
<1>3. new.status = "open" /\ new.expenses = row.expenses
  BY <1>2, SaleRow DEF Agree, UnopenedEmpty
<1> HIDE DEF new
<1>4. \A k \in Day : e.drawer[k].expenses = d.drawer[k].expenses
  BY <1>1, <1>3
<1>5. Amounts(e) = Amounts(d) /\ \A k \in Day : ExpensesOn(e, k) = ExpensesOn(d, k)
  BY <1>1 DEF Amounts, ExpensesOn
<1>6. ExpensesInDrawers(e)
  BY <1>4, <1>5 DEF Agree, ExpensesInDrawers
<1>7. UnopenedEmpty(e)
  BY <1>1, <1>3 DEF Agree, UnopenedEmpty
<1>8. QED
  BY <1>6, <1>7

LEMMA SaleAgree ==
    ASSUME NEW d, Good(d), Agree(d), NEW sale \in AnySale, NEW stamp \in Day, NEW day \in Day,
           d.drawer[day].status # "closed"
    PROVE  Agree(WithSale(RungUp(d, sale, stamp), sale, day))
<1> DEFINE e == WithSale(RungUp(d, sale, stamp), sale, day)
<1>1. d \in Databases /\ e \in Databases
  BY SaleGood DEF Good
<1>2. SaleFields(d, e, sale, stamp, day)
  BY <1>1, SaleEffect
<1> HIDE DEF e
<1>3. Sold(d, e, sale, stamp, day)
  BY <1>1, <1>2, SaleTables
<1>4. SalesInDrawers(e) /\ SpentMatches(e) /\ CartsMatch(e)
  BY <1>1, <1>3, SaleInDrawers, SaleSpent, SaleLines
<1>5. ExpensesInDrawers(e) /\ UnopenedEmpty(e)
  BY <1>1, <1>3, SaleRest
<1>6. Agree(e)
  BY <1>4, <1>5 DEF Agree
<1>7. QED
  BY <1>6 DEF e

\* Steps that leave the invoices, their rows and the clients' totals alone.
LEMMA SalesUntouched ==
    ASSUME NEW d, NEW e, Agree(d),
           e.invoices = d.invoices, e.items = d.items, e.spent = d.spent,
           \A k \in Day : /\ e.drawer[k].cash = d.drawer[k].cash
                          /\ e.drawer[k].digital = d.drawer[k].digital
    PROVE  SalesInDrawers(e) /\ SpentMatches(e) /\ CartsMatch(e)
<1>1. /\ Totals(e) = Totals(d) /\ Prices(e) = Prices(d)
      /\ \A methods : InvoicesBy(e, methods) = InvoicesBy(d, methods)
      /\ \A c : InvoicesOf(e, c) = InvoicesOf(d, c)
      /\ \A i : LinesOf(e, i) = LinesOf(d, i)
  BY Zenon DEF Totals, Prices, InvoicesBy, InvoicesOf, LinesOf
<1>2. /\ [k \in Day |-> e.drawer[k].cash] = [k \in Day |-> d.drawer[k].cash]
      /\ [k \in Day |-> e.drawer[k].digital] = [k \in Day |-> d.drawer[k].digital]
  OBVIOUS
<1>3. SalesInDrawers(e)
  BY <1>1, <1>2, Zenon DEF Agree, SalesInDrawers
<1>4. SpentMatches(e)
  BY <1>1, Zenon DEF Agree, SpentMatches
<1>5. CartsMatch(e)
  BY <1>1, Zenon DEF Agree, CartsMatch
<1>6. QED
  BY <1>3, <1>4, <1>5

\* Steps that leave the expenses alone, in their table and in the drawers.
LEMMA ExpensesUntouched ==
    ASSUME NEW d, NEW e, ExpensesInDrawers(d), e.expenses = d.expenses,
           \A k \in Day : e.drawer[k].expenses = d.drawer[k].expenses
    PROVE  ExpensesInDrawers(e)
<1>1. Amounts(e) = Amounts(d) /\ \A k \in Day : ExpensesOn(e, k) = ExpensesOn(d, k)
  BY Zenon DEF Amounts, ExpensesOn
<1>2. QED
  BY <1>1, Zenon DEF ExpensesInDrawers

\* What an expense adds to the row of its drawer.
LEMMA SpendingRow ==
    ASSUME NEW row \in DrawerRow, NEW amount \in Nat, row.status # "closed",
           row.status = "none" => row = NoRow
    PROVE  LET new == RowWithExpense(row, amount) IN
           /\ new.status = "open" /\ new.expenses = row.expenses + amount
           /\ new.cash = row.cash /\ new.digital = row.digital
<1>1. CASE row.status = "open"
  BY <1>1 DEF RowWithExpense, DrawerRow
<1>2. CASE row.status = "none"
  BY <1>2 DEF RowWithExpense, NewRow, NoRow
<1>3. QED
  BY <1>1, <1>2 DEF DrawerRow

\* A whole expense, field by field.
Paid(d, e, spending) ==
    /\ e.invoices = d.invoices /\ e.items = d.items /\ e.spent = d.spent
    /\ OneMore(Len(d.expenses), d.expenses, e.expenses, spending)
    /\ \A i \in 1 .. Len(d.expenses) : d.expenses[i] \in Spending
    /\ e.drawer[spending.date] = RowWithExpense(d.drawer[spending.date], spending.amount)
    /\ \A other \in Day \ {spending.date} : e.drawer[other] = d.drawer[other]

LEMMA SpendingEffect ==
    ASSUME NEW d \in Databases, NEW spending \in Spendings
    PROVE  Paid(d, WithSpending(WithExpense(d, spending), spending), spending)
<1> DEFINE d1 == WithExpense(d, spending)
           e == WithSpending(d1, spending)
<1>1. spending \in Spending /\ spending.date \in Day
  BY RequestAssumption DEF Spending
<1>2. /\ d1 \in Databases
      /\ d1.invoices = d.invoices /\ d1.items = d.items /\ d1.spent = d.spent
      /\ d1.expenses = Append(d.expenses, spending) /\ d1.drawer = d.drawer
  <2>1. d1 \in Databases
    BY WithExpenseType
  <2>2. QED
    BY <2>1 DEF WithExpense, Databases
<1> HIDE DEF d1
<1>3. /\ e.invoices = d.invoices /\ e.items = d.items /\ e.spent = d.spent
      /\ e.expenses = Append(d.expenses, spending)
      /\ e.drawer = [d.drawer EXCEPT ![spending.date] =
                        RowWithExpense(d.drawer[spending.date], spending.amount)]
  BY <1>2 DEF WithSpending, Databases
<1>4. d.expenses \in Seq(Spending) /\ d.drawer \in [Day -> DrawerRow]
  BY DEF Databases
<1>5. /\ OneMore(Len(d.expenses), d.expenses, Append(d.expenses, spending), spending)
      /\ \A i \in 1 .. Len(d.expenses) : d.expenses[i] \in Spending
  BY <1>1, <1>4, AppendIsOneMore
<1> HIDE DEF e
<1>6. /\ e.drawer[spending.date] = RowWithExpense(d.drawer[spending.date], spending.amount)
      /\ \A other \in Day \ {spending.date} : e.drawer[other] = d.drawer[other]
  BY <1>1, <1>3, <1>4
<1>7. Paid(d, e, spending)
  BY <1>3, <1>5, <1>6, Zenon DEF Paid
<1>8. QED
  BY <1>7 DEF e, d1

\* The expense is found under its day, and in the drawer of that day.
LEMMA SpendingAgree ==
    ASSUME NEW d, Good(d), Agree(d), NEW spending \in Spendings,
           d.drawer[spending.date].status # "closed"
    PROVE  Agree(WithSpending(WithExpense(d, spending), spending))
<1> DEFINE e == WithSpending(WithExpense(d, spending), spending)
           day == spending.date
           row == d.drawer[day]
           new == RowWithExpense(row, spending.amount)
           n == Len(d.expenses)
<1>1. d \in Databases /\ d.drawer \in [Day -> DrawerRow]
  BY DEF Good, Databases
<1>2. Paid(d, e, spending)
  BY <1>1, SpendingEffect
<1>3. spending \in Spending /\ day \in Day /\ spending.amount \in Nat
  BY RequestAssumption DEF Spending
<1>4. /\ new.status = "open" /\ new.expenses = row.expenses + spending.amount
      /\ new.cash = row.cash /\ new.digital = row.digital
  BY <1>1, <1>3, SpendingRow DEF Agree, UnopenedEmpty
<1>5. /\ e.invoices = d.invoices /\ e.items = d.items /\ e.spent = d.spent
      /\ e.drawer[day] = new /\ \A k \in Day \ {day} : e.drawer[k] = d.drawer[k]
  BY <1>2 DEF Paid
<1>6. /\ OneMore(n, d.expenses, e.expenses, spending)
      /\ \A i \in 1 .. n : d.expenses[i] \in Spending
  BY <1>2 DEF Paid
<1>7. n \in Nat
  BY <1>6 DEF OneMore
<1> HIDE DEF e, new, n
<1>8. \A k \in Day : /\ e.drawer[k].cash = d.drawer[k].cash
                     /\ e.drawer[k].digital = d.drawer[k].digital
  BY <1>4, <1>5
<1>9. SalesInDrawers(e) /\ SpentMatches(e) /\ CartsMatch(e)
  BY <1>5, <1>8, SalesUntouched
<1>10. UnopenedEmpty(e)
  BY <1>4, <1>5 DEF Agree, UnopenedEmpty
<1>11. ASSUME NEW k \in Day
       PROVE  e.drawer[k].expenses = SumFunctionOnSet(Amounts(e), ExpensesOn(e, k))
  <2> DEFINE last == k = day
             D == ExpensesOn(d, k)
             E == ExpensesOn(e, k)
  <2>1. Selected(n, D, E, last)
    BY <1>6 DEF Selected, OneMore, ExpensesOn
  <2>2. /\ \A i \in 1 .. n : Amounts(d)[i] \in Int /\ Amounts(e)[i] = Amounts(d)[i]
        /\ Amounts(e)[n + 1] = spending.amount /\ Amounts(e)[n + 1] \in Int
    BY <1>3, <1>6 DEF OneMore, Amounts, Spending
  <2>3. d.drawer[k].expenses = SumFunctionOnSet(Amounts(d), D)
    BY DEF Agree, ExpensesInDrawers
  <2>4. e.drawer[k].expenses = d.drawer[k].expenses + (IF last THEN spending.amount ELSE 0)
    <3>1. d.drawer[k].expenses \in Nat
      BY <1>1 DEF DrawerRow
    <3>2. QED
      BY <1>4, <1>5, <3>1
  <2> HIDE DEF last, D, E
  <2>5. SumFunctionOnSet(Amounts(e), E) =
           SumFunctionOnSet(Amounts(d), D) + (IF last THEN Amounts(e)[n + 1] ELSE 0)
    BY <1>7, <2>1, <2>2, SumExtended
  <2>6. QED
    BY <2>2, <2>3, <2>4, <2>5 DEF E
<1>12. Agree(e)
  BY <1>9, <1>10, <1>11 DEF Agree, ExpensesInDrawers
<1>13. QED
  BY <1>12 DEF e

\* Opening a day, closing one and a delivery: one row of the drawer at most,
\* and of that row neither money nor a name a step can take back.
LEMMA DrawerOnly ==
    ASSUME NEW d \in Databases, NEW e, Agree(d), NEW day \in Day, NEW row,
           e.invoices = d.invoices, e.items = d.items, e.spent = d.spent,
           e.expenses = d.expenses, e.drawer = [d.drawer EXCEPT ![day] = row],
           row.status # "none", row.cash = d.drawer[day].cash,
           row.digital = d.drawer[day].digital, row.expenses = d.drawer[day].expenses
    PROVE  Agree(e)
<1>1. d.drawer \in [Day -> DrawerRow]
  BY DEF Databases
<1>2. e.drawer[day] = row /\ \A k \in Day \ {day} : e.drawer[k] = d.drawer[k]
  BY <1>1
<1>3. \A k \in Day : /\ e.drawer[k].cash = d.drawer[k].cash
                     /\ e.drawer[k].digital = d.drawer[k].digital
                     /\ e.drawer[k].expenses = d.drawer[k].expenses
  BY <1>2
<1>4. SalesInDrawers(e) /\ SpentMatches(e) /\ CartsMatch(e)
  BY <1>3, SalesUntouched
<1>5. ExpensesInDrawers(e)
  BY <1>3, ExpensesUntouched DEF Agree
<1>6. UnopenedEmpty(e)
  BY <1>2 DEF Agree, UnopenedEmpty
<1>7. QED
  BY <1>4, <1>5, <1>6 DEF Agree

LEMMA NewDayAgree ==
    ASSUME NEW d, Good(d), Agree(d), NEW day \in Day, d.drawer[day].status = "none"
    PROVE  Agree(WithNewDay(d, day))
<1> DEFINE e == WithNewDay(d, day)
           row == NewRow(0, 0, 0)
<1>1. d \in Databases
  BY DEF Good
<1>2. /\ e.invoices = d.invoices /\ e.items = d.items /\ e.spent = d.spent
      /\ e.expenses = d.expenses /\ e.drawer = [d.drawer EXCEPT ![day] = row]
  BY <1>1 DEF WithNewDay, Databases
<1>3. d.drawer[day] = NoRow
  BY DEF Agree, UnopenedEmpty
<1>4. /\ row.status # "none" /\ row.cash = d.drawer[day].cash
      /\ row.digital = d.drawer[day].digital /\ row.expenses = d.drawer[day].expenses
  BY <1>3 DEF NewRow, NoRow
<1> HIDE DEF e, row
<1>5. Agree(e)
  BY <1>1, <1>2, <1>4, DrawerOnly
<1>6. QED
  BY <1>5 DEF e

LEMMA ClosedAgree ==
    ASSUME NEW d, Good(d), Agree(d), NEW day \in Day, NEW counted \in Counts
    PROVE  Agree(WithClosed(d, day, counted))
<1> DEFINE e == WithClosed(d, day, counted)
           row == [d.drawer[day] EXCEPT !.status = "closed", !.closing = counted]
<1>1. d \in Databases /\ d.drawer[day] \in DrawerRow
  BY DEF Good, Databases
<1>2. /\ e.invoices = d.invoices /\ e.items = d.items /\ e.spent = d.spent
      /\ e.expenses = d.expenses /\ e.drawer = [d.drawer EXCEPT ![day] = row]
  BY <1>1 DEF WithClosed, Databases
<1>3. /\ row.status # "none" /\ row.cash = d.drawer[day].cash
      /\ row.digital = d.drawer[day].digital /\ row.expenses = d.drawer[day].expenses
  BY <1>1 DEF DrawerRow
<1> HIDE DEF e, row
<1>4. Agree(e)
  BY <1>1, <1>2, <1>3, DrawerOnly
<1>5. QED
  BY <1>4 DEF e

LEMMA StockAgree ==
    ASSUME NEW d, Good(d), Agree(d), NEW delivery \in Deliveries
    PROVE  Agree(WithStock(d, delivery))
<1> DEFINE e == WithStock(d, delivery)
<1>1. /\ e.invoices = d.invoices /\ e.items = d.items /\ e.spent = d.spent
      /\ e.expenses = d.expenses /\ e.drawer = d.drawer
  BY DEF Good, WithStock, Databases
<1> HIDE DEF e
<1>2. SalesInDrawers(e) /\ SpentMatches(e) /\ CartsMatch(e)
  BY <1>1, SalesUntouched
<1>3. ExpensesInDrawers(e) /\ UnopenedEmpty(e)
  BY <1>1, ExpensesUntouched DEF Agree, UnopenedEmpty
<1>4. Agree(e)
  BY <1>2, <1>3 DEF Agree
<1>5. QED
  BY <1>4 DEF e

\* Zeros add up to zero.
LEMMA SumZero ==
    ASSUME NEW S, IsFiniteSet(S), NEW f, \A x \in S : f[x] = 0
    PROVE  SumFunctionOnSet(f, S) = 0
<1> DEFINE Zero == {T \in SUBSET S : SumFunctionOnSet(f, T) = 0}
<1>1. ASSUME NEW T \in SUBSET S, \A U \in SUBSET T : U # T => U \in Zero
      PROVE  T \in Zero
  <2>1. CASE T = {}
    BY <2>1, SumEmpty
  <2>2. CASE T # {}
    <3>1. SumFunctionOnSet(f, T) = f[Chosen(T)] + SumFunctionOnSet(f, T \ {Chosen(T)})
      BY <2>2, FS_Subset, SumOfChosen
    <3>2. Chosen(T) \in T
      BY <2>2, ChosenIn
    <3>3. SumFunctionOnSet(f, T \ {Chosen(T)}) = 0
      BY <1>1, <3>2
    <3>4. QED
      BY <3>1, <3>2, <3>3
  <2>3. QED
    BY <2>1, <2>2
<1>2. S \in Zero
  <2> HIDE DEF Zero
  <2>1. QED
    BY <1>1, SubsetInduction
<1>3. QED
  BY <1>2

\* The books are opened with nothing in them.
LEMMA SeededAgree == Agree(Seeded)
<1> DEFINE d == Seeded
<1>1. /\ DOMAIN d.invoices = {} /\ DOMAIN d.items = {} /\ DOMAIN d.expenses = {}
      /\ \A c \in Client : d.spent[c] = 0
  BY DEF Seeded
<1>2. \A k \in Day : d.drawer[k] = IF k = 1 THEN NewRow(0, 0, 0) ELSE NoRow
  BY DEF Seeded
<1>3. \A k \in Day : /\ d.drawer[k].cash = 0 /\ d.drawer[k].digital = 0
                     /\ d.drawer[k].expenses = 0
  BY <1>2 DEF NewRow, NoRow
<1> HIDE DEF d
<1>4. /\ \A methods : InvoicesBy(d, methods) = {}
      /\ \A c : InvoicesOf(d, c) = {}
      /\ \A k : ExpensesOn(d, k) = {}
  BY <1>1 DEF InvoicesBy, InvoicesOf, ExpensesOn
<1>5. IsFiniteSet(Day)
  BY FS_Interval, DayAssumption DEF Day
<1>6. /\ SumFunction([k \in Day |-> d.drawer[k].cash]) = 0
      /\ SumFunction([k \in Day |-> d.drawer[k].digital]) = 0
  <2> DEFINE f == [k \in Day |-> d.drawer[k].cash]
             g == [k \in Day |-> d.drawer[k].digital]
  <2>1. /\ \A k \in Day : f[k] = 0 /\ g[k] = 0
        /\ DOMAIN f = Day /\ DOMAIN g = Day
    BY <1>3
  <2> HIDE DEF f, g
  <2>2. SumFunctionOnSet(f, Day) = 0 /\ SumFunctionOnSet(g, Day) = 0
    BY <1>5, <2>1, SumZero
  <2>3. SumFunction(f) = 0 /\ SumFunction(g) = 0
    BY <2>1, <2>2 DEF SumFunction
  <2>4. QED
    BY <2>3 DEF f, g
<1>7. SalesInDrawers(d)
  <2>1. \A methods : SumFunctionOnSet(Totals(d), InvoicesBy(d, methods)) = 0
    BY <1>4, SumEmpty
  <2>2. QED
    BY <1>6, <2>1 DEF SalesInDrawers
<1>8. ExpensesInDrawers(d) /\ SpentMatches(d)
  BY <1>1, <1>3, <1>4, SumEmpty DEF ExpensesInDrawers, SpentMatches
<1>9. CartsMatch(d)
  BY <1>1 DEF CartsMatch
<1>10. UnopenedEmpty(d)
  BY <1>2 DEF UnopenedEmpty, NewRow
<1>11. Agree(d)
  BY <1>7, <1>8, <1>9, <1>10 DEF Agree
<1>12. QED
  BY <1>11 DEF d

\* Whatever AtomicLedger does, the books keep agreeing.
LEMMA AtomicAgrees ==
    ASSUME Good(db), Agree(db), today \in Day, Atomic!Next
    PROVE  Agree(db')
<1>1. CASE Atomic!Sell
  <2>1. PICK sale \in AnySale, stamp \in 1 .. today :
            /\ db.drawer[today].status # "closed"
            /\ db' = WithSale(RungUp(db, sale, stamp), sale, today)
    BY <1>1, SameSale DEF Atomic!Sell, AnySale
  <2>2. stamp \in Day
    BY <2>1, DayAssumption DEF Day
  <2>3. QED
    BY <2>1, <2>2, SaleAgree
<1>2. CASE Atomic!Spend
  <2>1. PICK spending \in Spendings :
            /\ db.drawer[spending.date].status # "closed"
            /\ db' = WithSpending(WithExpense(db, spending), spending)
    BY <1>2, SameSpending DEF Atomic!Spend
  <2>2. QED
    BY <2>1, SpendingAgree
<1>3. CASE Atomic!OpenDay
  <2>1. PICK day \in 1 .. today :
            db.drawer[day].status = "none" /\ db' = WithNewDay(db, day)
    BY <1>3, SameRest DEF Atomic!OpenDay
  <2>2. day \in Day
    BY <2>1, DayAssumption DEF Day
  <2>3. QED
    BY <2>1, <2>2, NewDayAgree
<1>4. CASE Atomic!CloseDay
  <2>1. PICK day \in Day, counted \in Counts : db' = WithClosed(db, day, counted)
    BY <1>4, SameRest DEF Atomic!CloseDay, Atomic!Day, Day
  <2>2. QED
    BY <2>1, ClosedAgree
<1>5. CASE Atomic!Deliver
  <2>1. PICK delivery \in Deliveries : db' = WithStock(db, delivery)
    BY <1>5, SameRest DEF Atomic!Deliver
  <2>2. QED
    BY <2>1, StockAgree
<1>6. CASE Atomic!Midnight
  BY <1>6 DEF Atomic!Midnight
<1>7. QED
  BY <1>1, <1>2, <1>3, <1>4, <1>5, <1>6 DEF Atomic!Next

\* Every step of the concurrent system is one of these or changes no committed
\* table, so that the sums agree in every state.
LEMMA AlwaysAgree == Spec => [](Inv /\ Agree(db))
<1>1. Init => Inv /\ Agree(db)
  BY InitStep, SeededAgree DEF Init, WalInit
<1>2. Inv /\ Agree(db) /\ [Next]_vars => (Inv /\ Agree(db))'
  <2> SUFFICES ASSUME Inv, Agree(db), [Next]_vars
               PROVE  (Inv /\ Agree(db))'
    OBVIOUS
  <2>1. Good(db) /\ today \in Day /\ Inv' /\ Refines
    BY InvFacts, NextStep DEF RequestsTypeOK
  <2>2. CASE Atomic!Next
    <3>1. Agree(db')
      BY <2>1, <2>2, AtomicAgrees
    <3>2. QED
      BY <2>1, <3>1
  <2>3. CASE UNCHANGED Books
    BY <2>1, <2>3 DEF Books
  <2>4. QED
    BY <2>1, <2>2, <2>3 DEF Refines
<1>3. QED
  BY <1>1, <1>2, PTL DEF Spec

\* What was sold and spent is in the drawers, to the unit but for what was paid
\* by a method other than the two: createCheckout and Expense::create book the
\* row and its money together or not at all, whatever else runs, fails or
\* crashes between their statements.
THEOREM TablesMatch == Spec => []DrawersMatchTables
<1>1. Inv /\ Agree(db) => DrawersMatchTables
  BY DEF Agree, UnopenedEmpty, DrawersMatchTables
<1>2. QED
  BY <1>1, AlwaysAgree, PTL

\* total_spent of every client has grown by the sum of the client's invoices.
THEOREM SpentIsInvoiced == Spec => []SpentBalances
<1>1. Inv /\ Agree(db) => SpentBalances
  BY DEF Agree, SpentMatches, SpentBalances
<1>2. QED
  BY <1>1, AlwaysAgree, PTL

\* No reader of the tables ever finds an invoice without the rows of its cart,
\* or rows without their invoice, although createCheckout writes them one by one.
THEOREM CartsComplete == Spec => []InvoicesComplete
<1>1. Inv /\ Agree(db) => InvoicesComplete
  BY DEF Agree, CartsMatch, InvoicesComplete
<1>2. QED
  BY <1>1, AlwaysAgree, PTL
=============================================================================
