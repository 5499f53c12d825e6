----------------------------- MODULE ListingProofs -----------------------------
(***************************************************************************)
(* Safety of Listing for every finite set of rows and every page size.     *)
(*                                                                         *)
(* ListingInv is inductive.  DateInv dates rows no later than their        *)
(* commit, PageInv says what is known of the page in hand, and WalkInv is  *)
(* the argument for complete walks: so many rows are ahead of a row that   *)
(* is owed and not tied that it belongs to a page still to be read, and    *)
(* rows ahead of it only become more.                                      *)
(***************************************************************************)
EXTENDS Listing, FiniteSetTheorems, TLAPS

(* The rows that come before z whatever the database does with ties.       *)
Ahead(z) == {r \in Visible : Before(r, z)}

OnPage(z) == \E i \in DOMAIN items : items[i] = z

DateInv ==
  \A r \in Row :
    /\ row[r] = "open" => created[r] <= now
    /\ row[r] = "live" => created[r] <= durable[r]

PageInv ==
  /\ at = "idle" => page = 1
  /\ \A i \in DOMAIN items :
       /\ row[items[i]] \in {"live", "gone"}
       /\ created[items[i]] <= durable[items[i]]
  /\ \A i, k \in DOMAIN items : i < k => ~Before(items[k], items[i])

WalkInv ==
  /\ owed \subseteq Visible
  /\ \A z \in owed :
       \/ Tied(z)
       \/ /\ at # "done"
          /\ Cardinality(Ahead(z)) >= (page - 1) * PageSize
          /\ at \in {"counting", "answering"} =>
               OnPage(z) \/ Cardinality(Ahead(z)) >= page * PageSize
          /\ at = "answering" => OnPage(z) \/ total > page * PageSize

ListingInv == TypeOK /\ DateInv /\ PageInv /\ WalkInv

-----------------------------------------------------------------------------
(* Pages and the rows ahead of one.                                        *)

LEMMA Floor ==
  ASSUME NEW m \in Int
  PROVE  m \div PageSize \in Int /\ (m \div PageSize) * PageSize <= m
BY PageSizeAssumption

(* The last page is the last: no rows were counted beyond it.              *)
LEMMA PagesCover ==
  ASSUME NEW n \in Nat, NEW p \in Nat, Pages(n) <= p
  PROVE  n <= p * PageSize
<1> DEFINE q == (-n) \div PageSize
<1>1. q \in Int /\ q * PageSize <= -n
  <2>1. -n \in Int
    OBVIOUS
  <2> QED  BY <2>1, Floor
<1>2. -q <= p
  BY <1>1 DEF Pages
<1> HIDE DEF q
<1>3. (-q) * PageSize <= p * PageSize
  BY <1>1, <1>2, PageSizeAssumption
<1>4. (-q) * PageSize = -(q * PageSize)
  BY <1>1, PageSizeAssumption
<1> QED  BY <1>1, <1>3, <1>4, PageSizeAssumption

LEMMA Offsets ==
  ASSUME NEW p \in Nat \ {0}
  PROVE  /\ (p - 1) * PageSize \in Nat
         /\ p * PageSize \in Nat
         /\ p * PageSize = (p - 1) * PageSize + PageSize
BY PageSizeAssumption

LEMMA VisibleFinite ==
  /\ IsFiniteSet(Visible)
  /\ \A z \in Row : IsFiniteSet(Ahead(z)) /\ Cardinality(Ahead(z)) \in Nat
<1>1. IsFiniteSet(Visible)
  BY RowAssumption, FS_Subset DEF Visible
<1>2. ASSUME NEW z \in Row
      PROVE  IsFiniteSet(Ahead(z)) /\ Cardinality(Ahead(z)) \in Nat
  <2>1. Ahead(z) \in SUBSET Visible
    BY DEF Ahead
  <2> QED  BY <1>1, <2>1, FS_Subset, FS_CardinalityType
<1> QED  BY <1>1, <1>2

(* In every order in which the database may return them, a row that is not *)
(* tied has exactly the rows ahead of it before it.                        *)
LEMMA PlaceOf ==
  ASSUME TypeOK, NEW order \in Orders, NEW z \in Visible, ~Tied(z)
  PROVE  /\ Cardinality(Ahead(z)) + 1 \in DOMAIN order
         /\ order[Cardinality(Ahead(z)) + 1] = z
<1> DEFINE n == Cardinality(Visible)
           D == 1..n
<1>1. n \in Nat /\ IsFiniteSet(D) /\ Cardinality(D) = n
  BY VisibleFinite, FS_CardinalityType, FS_Interval
<1>2. /\ order \in [D -> Visible]
      /\ \A i, j \in D : i # j => order[i] # order[j]
      /\ \A i, k \in D : i < k => ~Before(order[k], order[i])
  BY DEF Orders, SetToSeqs
<1>3. PICK p \in D : order[p] = z
  <2>1. order \in Injection(D, Visible)
    BY <1>2 DEF Injection, IsInjective
  <2>2. order \in Surjection(D, Visible)
    BY <1>1, <2>1, VisibleFinite, FS_Injection
  <2> QED  BY <2>2 DEF Surjection
<1> DEFINE f == [i \in 1..(p - 1) |-> order[i]]
<1>4. p \in Nat /\ p - 1 \in Nat /\ \A i \in 1..(p - 1) : i \in D /\ i < p
  BY <1>1
<1>5. \A i \in 1..(p - 1) : order[i] \in Ahead(z)
  <2> SUFFICES ASSUME NEW i \in 1..(p - 1) PROVE order[i] \in Ahead(z)
    OBVIOUS
  <2>1. i \in D /\ i < p /\ order[i] \in Visible /\ order[i] # z
    BY <1>2, <1>3, <1>4
  <2>2. ~Before(z, order[i])
    BY <1>2, <1>3, <2>1
  <2>3. created[order[i]] # created[z]
    BY <2>1 DEF Tied, Visible
  <2>4. created[order[i]] \in Nat /\ created[z] \in Nat
    BY <2>1 DEF TypeOK, Visible
  <2> QED  BY <2>1, <2>2, <2>3, <2>4 DEF Ahead, Before
<1>6. \A r \in Ahead(z) : \E i \in 1..(p - 1) : order[i] = r
  <2> SUFFICES ASSUME NEW r \in Ahead(z) PROVE \E i \in 1..(p - 1) : order[i] = r
    OBVIOUS
  <2>1. PICK i \in D : order[i] = r
    <3>1. order \in Injection(D, Visible)
      BY <1>2 DEF Injection, IsInjective
    <3>2. order \in Surjection(D, Visible)
      BY <1>1, <3>1, VisibleFinite, FS_Injection
    <3> QED  BY <3>2 DEF Surjection, Ahead
  <2>2. created[r] \in Nat /\ created[z] \in Nat /\ Before(r, z)
    BY DEF TypeOK, Visible, Ahead
  <2>3. i # p
    BY <1>3, <2>1, <2>2 DEF Before
  <2>4. ~(p < i)
    BY <1>2, <1>3, <2>1, <2>2
  <2> QED  BY <1>1, <2>1, <2>3, <2>4
<1>7. f \in Bijection(1..(p - 1), Ahead(z))
  <2>1. f \in [1..(p - 1) -> Ahead(z)]
    BY <1>5
  <2>2. \A i, j \in 1..(p - 1) : f[i] = f[j] => i = j
    BY <1>2, <1>4
  <2>3. \A r \in Ahead(z) : \E i \in 1..(p - 1) : f[i] = r
    BY <1>6
  <2> QED  BY <2>1, <2>2, <2>3 DEF Bijection, Injection, Surjection, IsInjective
<1>8. Cardinality(Ahead(z)) = p - 1
  BY <1>4, <1>7, FS_CountingElements DEF ExistsBijection
<1> QED  BY <1>2, <1>3, <1>4, <1>8

-----------------------------------------------------------------------------
(* Writers: rows ahead of an owed one only become more, and a tie stays.   *)

LEMMA AheadGrows ==
  ASSUME NEW z \in Row, Ahead(z) \subseteq Ahead(z)'
  PROVE  Cardinality(Ahead(z)) <= Cardinality(Ahead(z)')
         /\ Cardinality(Ahead(z)) \in Nat /\ Cardinality(Ahead(z)') \in Nat
<1>1. Ahead(z)' \in SUBSET Row
  BY DEF Ahead, Visible
<1>2. IsFiniteSet(Ahead(z)')
  BY <1>1, RowAssumption, FS_Subset
<1> QED  BY <1>2, FS_Subset, FS_CardinalityType

LEMMA WalkFrame ==
  ASSUME TypeOK, WalkInv, UNCHANGED <<page, at, items, total>>,
         owed' \subseteq owed, owed' \subseteq Visible',
         \A z \in owed' : Tied(z) => Tied(z)',
         \A z \in owed' : Ahead(z) \subseteq Ahead(z)'
  PROVE  WalkInv'
<1> SUFFICES ASSUME NEW z \in owed', ~Tied(z)'
             PROVE  /\ at # "done"
                    /\ Cardinality(Ahead(z)') >= (page - 1) * PageSize
                    /\ at \in {"counting", "answering"} =>
                         OnPage(z) \/ Cardinality(Ahead(z)') >= page * PageSize
                    /\ at = "answering" => OnPage(z) \/ total > page * PageSize
  BY DEF WalkInv, OnPage
<1>1. z \in Row /\ z \in owed /\ ~Tied(z)
  BY DEF WalkInv, Visible
<1>2. /\ Cardinality(Ahead(z)) <= Cardinality(Ahead(z)')
      /\ Cardinality(Ahead(z)) \in Nat /\ Cardinality(Ahead(z)') \in Nat
  BY <1>1, AheadGrows
<1>3. (page - 1) * PageSize \in Nat /\ page * PageSize \in Nat
  BY Offsets DEF TypeOK
<1> QED  BY <1>1, <1>2, <1>3 DEF WalkInv

LEMMA BeginRowInv ==
  ASSUME ListingInv, NEW r \in Row, BeginRow(r)
  PROVE  ListingInv'
<1> USE DEF ListingInv
<1>1. TypeOK'
  BY DEF TypeOK, BeginRow, reader
<1>2. DateInv'
  BY DEF TypeOK, DateInv, BeginRow, reader
<1>3. PageInv'
  <2>1. \A i \in DOMAIN items : items[i] \in Row /\ items[i] # r
    BY DEF TypeOK, PageInv, BeginRow
  <2>2. \A i \in DOMAIN items :
          row'[items[i]] = row[items[i]] /\ created'[items[i]] = created[items[i]]
    BY <2>1 DEF TypeOK, BeginRow
  <2> QED  BY <2>1, <2>2 DEF PageInv, Before, BeginRow, reader
<1>4. WalkInv'
  <2>1. \A s \in Row \ {r} : row'[s] = row[s] /\ created'[s] = created[s]
    BY DEF TypeOK, BeginRow
  <2>2. row'[r] = "open" /\ row[r] = "none"
    BY DEF TypeOK, BeginRow
  <2>3. Visible' = Visible /\ r \notin Visible /\ Visible \subseteq Row
    BY <2>1, <2>2 DEF Visible
  <2>4. UNCHANGED reader /\ list' = list
    BY DEF BeginRow
  <2>5. \A z \in owed : z \in Row \ {r}
    BY <2>3 DEF WalkInv
  <2>6. \A z \in owed : Tied(z) => Tied(z)'
    BY <2>1, <2>2, <2>5 DEF Tied
  <2>7. \A z \in owed : Ahead(z) \subseteq Ahead(z)'
    BY <2>1, <2>3, <2>4, <2>5 DEF Ahead, Before
  <2> QED  BY <2>3, <2>4, <2>6, <2>7, WalkFrame DEF WalkInv, reader
<1> QED  BY <1>1, <1>2, <1>3, <1>4

LEMMA CommitRowInv ==
  ASSUME ListingInv, NEW r \in Row, CommitRow(r)
  PROVE  ListingInv'
<1> USE DEF ListingInv
<1>1. TypeOK'
  BY DEF TypeOK, CommitRow, reader
<1>2. DateInv'
  BY DEF TypeOK, DateInv, CommitRow, reader
<1>3. PageInv'
  <2>1. \A i \in DOMAIN items : items[i] \in Row /\ items[i] # r
    BY DEF TypeOK, PageInv, CommitRow
  <2>2. \A i \in DOMAIN items :
          row'[items[i]] = row[items[i]] /\ durable'[items[i]] = durable[items[i]]
    BY <2>1 DEF TypeOK, CommitRow
  <2> QED  BY <2>1, <2>2 DEF PageInv, Before, CommitRow, reader
<1>4. WalkInv'
  <2>1. \A s \in Row \ {r} : row'[s] = row[s]
    BY DEF TypeOK, CommitRow
  <2>2. row'[r] = "live" /\ row[r] = "open"
    BY DEF TypeOK, CommitRow
  <2>3. Visible \subseteq Visible'
    BY <2>1, <2>2 DEF Visible
  <2>4. UNCHANGED <<reader, list, created>>
    BY DEF CommitRow
  <2>5. \A z \in owed : Tied(z) => Tied(z)'
    BY <2>1, <2>2, <2>4 DEF Tied
  <2>6. \A z \in owed : Ahead(z) \subseteq Ahead(z)'
    BY <2>3, <2>4 DEF Ahead, Before
  <2> QED  BY <2>3, <2>4, <2>5, <2>6, WalkFrame DEF WalkInv, reader
<1> QED  BY <1>1, <1>2, <1>3, <1>4

LEMMA RollBackRowInv ==
  ASSUME ListingInv, NEW r \in Row, RollBackRow(r)
  PROVE  ListingInv'
<1> USE DEF ListingInv
<1>1. TypeOK'
  BY DEF TypeOK, RollBackRow, reader
<1>2. DateInv'
  BY DEF TypeOK, DateInv, RollBackRow, reader
<1>3. PageInv'
  <2>1. \A i \in DOMAIN items : items[i] \in Row /\ items[i] # r
    BY DEF TypeOK, PageInv, RollBackRow
  <2>2. \A i \in DOMAIN items : row'[items[i]] = row[items[i]]
    BY <2>1 DEF TypeOK, RollBackRow
  <2> QED  BY <2>1, <2>2 DEF PageInv, Before, RollBackRow, reader
<1>4. WalkInv'
  <2>1. \A s \in Row \ {r} : row'[s] = row[s]
    BY DEF TypeOK, RollBackRow
  <2>2. row'[r] = "gone" /\ row[r] = "open"
    BY DEF TypeOK, RollBackRow
  <2>3. Visible \subseteq Visible'
    BY <2>1, <2>2 DEF Visible
  <2>4. UNCHANGED <<reader, list, created>>
    BY DEF RollBackRow
  <2>5. \A z \in owed : Tied(z) => Tied(z)'
    BY <2>1, <2>2, <2>4 DEF Tied
  <2>6. \A z \in owed : Ahead(z) \subseteq Ahead(z)'
    BY <2>3, <2>4 DEF Ahead, Before
  <2> QED  BY <2>3, <2>4, <2>5, <2>6, WalkFrame DEF WalkInv, reader
<1> QED  BY <1>1, <1>2, <1>3, <1>4

(* The deleted row was not ahead of those that are still owed.             *)
LEMMA DeleteRowInv ==
  ASSUME ListingInv, NEW r \in Row, DeleteRow(r)
  PROVE  ListingInv'
<1> USE DEF ListingInv
<1>1. TypeOK'
  BY DEF TypeOK, DeleteRow
<1>2. DateInv'
  BY DEF TypeOK, DateInv, DeleteRow
<1>3. PageInv'
  BY DEF TypeOK, PageInv, Before, DeleteRow
<1>4. WalkInv'
  <2>1. \A s \in Row \ {r} : row'[s] = row[s]
    BY DEF TypeOK, DeleteRow
  <2>2. row'[r] = "gone" /\ row[r] = "live" /\ list = "conversations"
    BY DEF TypeOK, DeleteRow
  <2>3. /\ owed' = {z \in owed : Before(z, r)}
        /\ UNCHANGED <<page, at, items, total, list, created>>
    BY DEF DeleteRow
  <2>4. \A z \in owed' : z \in owed /\ z \in Row /\ created[r] < created[z]
    BY <2>2, <2>3 DEF WalkInv, Visible, Before
  <2>5. \A z \in owed' : ~Before(r, z) /\ z # r
    BY <2>2, <2>4 DEF Before, TypeOK
  <2>6. owed' \subseteq Visible'
    BY <2>1, <2>4, <2>5 DEF WalkInv, Visible
  <2>7. \A z \in owed' : Tied(z) => Tied(z)'
    BY <2>1, <2>2, <2>3 DEF Tied
  <2>8. \A z \in owed' : Ahead(z) \subseteq Ahead(z)'
    BY <2>1, <2>3, <2>5 DEF Ahead, Before, Visible
  <2> QED  BY <2>3, <2>4, <2>6, <2>7, <2>8, WalkFrame
<1> QED  BY <1>1, <1>2, <1>3, <1>4

LEMMA DeleteConversationInv ==
  ASSUME ListingInv, DeleteConversation
  PROVE  ListingInv'
<1> USE DEF ListingInv
<1>1. TypeOK'
  BY DEF TypeOK, DeleteConversation
<1>2. DateInv'
  BY DEF TypeOK, DateInv, DeleteConversation
<1>3. PageInv'
  BY DEF TypeOK, PageInv, Before, DeleteConversation
<1>4. WalkInv'
  BY DEF WalkInv, DeleteConversation
<1> QED  BY <1>1, <1>2, <1>3, <1>4

LEMMA TickInv ==
  ASSUME ListingInv, Tick
  PROVE  ListingInv'
<1> USE DEF ListingInv
<1>1. TypeOK' /\ DateInv' /\ PageInv'
  BY DEF TypeOK, DateInv, PageInv, Before, Tick, reader
<1>2. WalkInv'
  BY DEF WalkInv, Ahead, Tied, OnPage, Visible, Before, Tick, reader
<1> QED  BY <1>1, <1>2

-----------------------------------------------------------------------------
(* The reader.                                                             *)

(* Its steps leave the rows alone, and with them everything said of them.  *)
LEMMA RowsFrame ==
  ASSUME UNCHANGED rows
  PROVE  /\ Visible' = Visible
         /\ \A z : Ahead(z)' = Ahead(z) /\ Tied(z)' = Tied(z)
         /\ DateInv => DateInv'
BY DEF rows, Visible, Ahead, Before, Tied, DateInv

LEMMA StartReadingInv ==
  ASSUME ListingInv, StartReading
  PROVE  ListingInv'
<1> USE DEF ListingInv
<1>1. UNCHANGED <<rows, page, items, total>> /\ owed' = Visible /\ at = "idle"
      /\ at' \in {"checking", "listing"}
  BY DEF StartReading, FirstStatement
<1>2. TypeOK'
  BY <1>1 DEF TypeOK, rows, Visible
<1>3. DateInv' /\ PageInv'
  BY <1>1, RowsFrame DEF PageInv, Before, rows
<1>4. WalkInv'
  <2> SUFFICES ASSUME NEW z \in Visible
               PROVE  Cardinality(Ahead(z)) >= (page - 1) * PageSize
    BY <1>1, RowsFrame DEF WalkInv
  <2>1. page = 1
    BY <1>1 DEF PageInv
  <2>2. (page - 1) * PageSize = 0
    BY <2>1, PageSizeAssumption
  <2>3. Cardinality(Ahead(z)) \in Nat
    BY VisibleFinite DEF Visible
  <2> QED  BY <2>2, <2>3
<1> QED  BY <1>2, <1>3, <1>4

LEMMA CheckExistsInv ==
  ASSUME ListingInv, CheckExists
  PROVE  ListingInv'
<1> USE DEF ListingInv
<1>1. UNCHANGED <<rows, page, items, total, owed>> /\ at = "checking"
      /\ at' \in {"listing", "refused"}
  BY DEF CheckExists, NextStatement
<1>2. TypeOK'
  BY <1>1 DEF TypeOK, rows
<1>3. DateInv' /\ PageInv'
  BY <1>1, RowsFrame DEF PageInv, Before, rows
<1>4. WalkInv'
  BY <1>1, RowsFrame DEF WalkInv
<1> QED  BY <1>2, <1>3, <1>4

LEMMA ListPageInv ==
  ASSUME ListingInv, ListPage
  PROVE  ListingInv'
<1> USE DEF ListingInv
<1>1. UNCHANGED <<rows, page, total, owed>> /\ at = "listing" /\ at' = "counting"
  BY DEF ListPage, NextStatement
<1>2. PICK order \in Orders : items' = [i \in Window \cap DOMAIN order |-> order[i]]
  BY DEF ListPage
<1>3. /\ DOMAIN items' = Window \cap DOMAIN order
      /\ \A i \in DOMAIN items' : items'[i] = order[i] /\ order[i] \in Visible
  <2>1. order \in [DOMAIN order -> Visible]
    BY DEF Orders, SetToSeqs
  <2> QED  BY <1>2, <2>1
<1>4. TypeOK'
  <2>1. items' \in [DOMAIN items' -> Row]
    BY <1>2, <1>3 DEF Visible
  <2>2. DOMAIN items' \subseteq (page' - 1) * PageSize + 1 .. page' * PageSize
    BY <1>1, <1>3 DEF Window
  <2> QED  BY <1>1, <2>1, <2>2 DEF TypeOK, rows
<1>5. PageInv'
  <2>1. \A i \in DOMAIN items' : row[items'[i]] = "live"
                                 /\ created[items'[i]] <= durable[items'[i]]
    BY <1>3 DEF Visible, DateInv
  <2>2. \A i, k \in DOMAIN items' : i < k => ~Before(items'[k], items'[i])
    BY <1>3 DEF Orders
  <2> QED  BY <1>1, <2>1, <2>2 DEF PageInv, Before, rows
<1>6. WalkInv'
  <2> SUFFICES ASSUME NEW z \in owed, ~Tied(z)
               PROVE  OnPage(z)' \/ Cardinality(Ahead(z)) >= page * PageSize
    BY <1>1, RowsFrame DEF WalkInv
  <2> DEFINE n == Cardinality(Ahead(z))
  <2>1. z \in Visible /\ n >= (page - 1) * PageSize
    BY <1>1 DEF WalkInv
  <2>2. n + 1 \in DOMAIN order /\ order[n + 1] = z
    BY <2>1, PlaceOf
  <2>3. n \in Nat
    BY <2>1, VisibleFinite DEF Visible
  <2> HIDE DEF n
  <2>4. (page - 1) * PageSize \in Nat /\ page * PageSize \in Nat
    BY Offsets DEF TypeOK
  <2>5. CASE n < page * PageSize
    <3>1. n + 1 \in Window
      BY <2>1, <2>3, <2>4, <2>5 DEF Window
    <3> QED  BY <1>3, <2>2, <3>1 DEF OnPage
  <2>6. CASE n >= page * PageSize
    BY <2>6 DEF n
  <2> QED  BY <2>3, <2>4, <2>5, <2>6
<1> QED  BY <1>1, <1>4, <1>5, <1>6, RowsFrame

(* What is counted includes the row itself and all ahead of it.            *)
LEMMA CountRowsInv ==
  ASSUME ListingInv, CountRows
  PROVE  ListingInv'
<1> USE DEF ListingInv
<1>1. UNCHANGED <<rows, page, items, owed>> /\ at = "counting" /\ at' = "answering"
      /\ total' = Cardinality(Visible)
  BY DEF CountRows, NextStatement
<1>2. TypeOK'
  BY <1>1, VisibleFinite, FS_CardinalityType DEF TypeOK, rows
<1>3. DateInv' /\ PageInv'
  BY <1>1, RowsFrame DEF PageInv, Before, rows
<1>4. WalkInv'
  <2> SUFFICES ASSUME NEW z \in owed, ~Tied(z), ~OnPage(z)
               PROVE  total' > page * PageSize
    BY <1>1, RowsFrame DEF WalkInv, OnPage
  <2>1. z \in Visible /\ z \in Row /\ Cardinality(Ahead(z)) >= page * PageSize
    BY <1>1 DEF WalkInv, Visible
  <2>2. z \notin Ahead(z)
    BY <2>1 DEF Ahead, Before, TypeOK
  <2>3. Ahead(z) \in SUBSET Visible /\ Ahead(z) # Visible
    BY <2>1, <2>2 DEF Ahead
  <2>4. Cardinality(Ahead(z)) < Cardinality(Visible)
    BY <2>3, VisibleFinite, FS_Subset, FS_CardinalityType
  <2>5. /\ page * PageSize \in Nat
        /\ Cardinality(Ahead(z)) \in Nat /\ Cardinality(Visible) \in Nat
    BY <2>1, VisibleFinite, FS_CardinalityType, Offsets DEF TypeOK
  <2> QED  BY <1>1, <2>1, <2>4, <2>5
<1> QED  BY <1>2, <1>3, <1>4

LEMMA AnswerInv ==
  ASSUME ListingInv, Answer
  PROVE  ListingInv'
<1> USE DEF ListingInv
<1>1. /\ UNCHANGED <<rows, total>> /\ at = "answering" /\ items' = <<>>
      /\ owed' = owed \ {items[i] : i \in DOMAIN items}
  BY DEF Answer
<1>2. \A z \in owed' : z \in owed /\ ~OnPage(z)
  BY <1>1 DEF OnPage
<1>3. \/ page' = page + 1 /\ at' \in {"checking", "listing"}
      \/ page' = page /\ page >= Pages(total) /\ at' = "done"
  BY DEF Answer, FirstStatement
<1>4. TypeOK'
  BY <1>1, <1>3 DEF TypeOK, rows
<1>5. DateInv' /\ PageInv'
  BY <1>1, <1>3, RowsFrame DEF PageInv
<1>6. WalkInv'
  <2> SUFFICES ASSUME NEW z \in owed', ~Tied(z)
               PROVE  /\ at' # "done" /\ at' \notin {"counting", "answering"}
                      /\ Cardinality(Ahead(z)) >= (page' - 1) * PageSize
    BY <1>1, RowsFrame DEF WalkInv
  <2>1. total > page * PageSize /\ Cardinality(Ahead(z)) >= page * PageSize
    BY <1>1, <1>2 DEF WalkInv
  <2>2. page \in Nat /\ total \in Nat /\ page * PageSize \in Nat
    BY Offsets DEF TypeOK
  <2>3. at' # "done"
    <3> SUFFICES ASSUME page >= Pages(total) PROVE FALSE
      BY <1>3
    <3>1. Pages(total) <= page
      BY <2>2, Floor DEF Pages
    <3>2. total <= page * PageSize
      BY <2>2, <3>1, PagesCover
    <3> QED  BY <2>1, <2>2, <3>2
  <2>4. page' = page + 1 /\ at' \in {"checking", "listing"}
    BY <1>3, <2>3
  <2>5. page' - 1 = page
    BY <2>2, <2>4
  <2> QED  BY <2>1, <2>3, <2>4, <2>5
<1> QED  BY <1>4, <1>5, <1>6

LEMMA RequestFailsInv ==
  ASSUME ListingInv, RequestFails
  PROVE  ListingInv'
<1> USE DEF ListingInv
<1>1. UNCHANGED <<rows, page, total, owed>> /\ items' = <<>>
      /\ at \in {"checking", "listing", "counting"} /\ at' \in {"checking", "listing"}
  BY DEF RequestFails, FirstStatement
<1>2. TypeOK'
  BY <1>1 DEF TypeOK, rows
<1>3. DateInv' /\ PageInv'
  BY <1>1, RowsFrame DEF PageInv
<1>4. WalkInv'
  BY <1>1, RowsFrame DEF WalkInv
<1> QED  BY <1>2, <1>3, <1>4

-----------------------------------------------------------------------------

LEMMA InitInv == Init => ListingInv
BY DEF Init, ListingInv, TypeOK, DateInv, PageInv, WalkInv

LEMMA StepInv == ListingInv /\ [Next]_vars => ListingInv'
<1> SUFFICES ASSUME ListingInv, [Next]_vars PROVE ListingInv'
  OBVIOUS
<1>1. ASSUME NEW r \in Row, BeginRow(r) PROVE ListingInv'
  BY <1>1, BeginRowInv
<1>2. ASSUME NEW r \in Row, CommitRow(r) PROVE ListingInv'
  BY <1>2, CommitRowInv
<1>3. ASSUME NEW r \in Row, RollBackRow(r) PROVE ListingInv'
  BY <1>3, RollBackRowInv
<1>4. ASSUME NEW r \in Row, DeleteRow(r) PROVE ListingInv'
  BY <1>4, DeleteRowInv
<1>5. CASE UNCHANGED vars
  BY <1>5 DEF vars, rows, reader, ListingInv, TypeOK, DateInv, PageInv, WalkInv,
     Visible, Ahead, Before, Tied, OnPage
<1> QED  BY <1>1, <1>2, <1>3, <1>4, <1>5, DeleteConversationInv, TickInv,
     StartReadingInv, CheckExistsInv, ListPageInv, CountRowsInv, AnswerInv,
     RequestFailsInv DEF Next

(* In every reachable state, whatever the rows and the size of a page: the *)
(* dates of rows, the order of the page in hand, and for each row that a   *)
(* walk still owes enough rows ahead of it (Listing).                      *)
THEOREM ListingInvariant == Spec => []ListingInv
BY InitInv, StepInv, PTL DEF Spec

(* Type correctness of Listing: a page is a window of the list of rows.    *)
THEOREM TypeCorrect == Spec => []TypeOK
<1>1. ListingInv => TypeOK
  BY DEF ListingInv
<1> QED  BY <1>1, ListingInvariant, PTL

(* list_by_conversation and list_by_owner page by page, each counted after *)
(* it was listed, lose only rows that are tied or moved by a deletion.     *)
THEOREM CompleteWalk == Spec => []WalkIsComplete
<1>1. ListingInv => WalkIsComplete
  BY DEF ListingInv, WalkInv, WalkIsComplete
<1> QED  BY <1>1, ListingInvariant, PTL

(* ORDER BY created_at never lists a message before one that was saved     *)
(* when its transaction began.                                             *)
THEOREM CausesFirst == Spec => []CausalOrder
<1>1. ListingInv => CausalOrder
  <2> SUFFICES ASSUME ListingInv, NEW i \in DOMAIN items, NEW k \in DOMAIN items, i < k
               PROVE  IF list = "messages" THEN durable[items[k]] >= created[items[i]]
                                           ELSE durable[items[i]] >= created[items[k]]
    BY DEF CausalOrder
  <2>1. items[i] \in Row /\ items[k] \in Row
    BY DEF ListingInv, TypeOK
  <2>2. /\ created[items[i]] \in Nat /\ created[items[k]] \in Nat
        /\ durable[items[i]] \in Nat /\ durable[items[k]] \in Nat
    BY <2>1 DEF ListingInv, TypeOK
  <2>3. /\ ~Before(items[k], items[i])
        /\ created[items[i]] <= durable[items[i]]
        /\ created[items[k]] <= durable[items[k]]
    BY DEF ListingInv, PageInv
  <2> QED  BY <2>2, <2>3 DEF Before
<1> QED  BY <1>1, ListingInvariant, PTL

-----------------------------------------------------------------------------
(* The number of pages.                                                    *)

LEMMA FloorIsNear ==
  ASSUME NEW m \in Int
  PROVE  m < (m \div PageSize) * PageSize + PageSize
BY PageSizeAssumption

LEMMA MoreRows ==
  ASSUME NEW a \in Nat, NEW b \in Nat, a * PageSize < b * PageSize
  PROVE  a < b
<1> SUFFICES ASSUME b <= a PROVE FALSE
  OBVIOUS
<1>1. b * PageSize <= a * PageSize
  BY PageSizeAssumption
<1>2. a * PageSize \in Nat /\ b * PageSize \in Nat
  BY PageSizeAssumption
<1> QED  BY <1>1, <1>2

(* "pages" in the answer of a list (MessageListResponse.create): the rows  *)
(* fill all pages but the last, and at least one page is announced.        *)
THEOREM PagesAreExact ==
  ASSUME NEW n \in Nat
  PROVE  /\ Pages(n) \in Nat \ {0}
         /\ n <= Pages(n) * PageSize
         /\ Pages(n) = 1 \/ (Pages(n) - 1) * PageSize < n
<1> DEFINE q == (-n) \div PageSize
<1>1. q \in Int /\ -n < q * PageSize + PageSize
  <2>1. -n \in Int
    OBVIOUS
  <2> QED  BY <2>1, Floor, FloorIsNear
<1>2. Pages(n) = IF -q < 1 THEN 1 ELSE -q
  BY DEF Pages
<1> HIDE DEF q
<1>3. Pages(n) \in Nat \ {0}
  BY <1>1, <1>2
<1>4. n <= Pages(n) * PageSize
  BY <1>3, PagesCover
<1>5. CASE Pages(n) # 1
  <2>1. Pages(n) = -q
    BY <1>2, <1>5
  <2>2. (-q - 1) * PageSize = -(q * PageSize) - PageSize
    BY <1>1, PageSizeAssumption
  <2>3. q * PageSize \in Int /\ PageSize \in Int
    BY <1>1, PageSizeAssumption
  <2> QED  BY <1>1, <1>3, <1>4, <2>1, <2>2, <2>3
<1> QED  BY <1>3, <1>4, <1>5

LEMMA PagesGrow ==
  ASSUME NEW n \in Nat, NEW m \in Nat, n <= m
  PROVE  Pages(n) <= Pages(m)
<1>1. /\ Pages(n) \in Nat \ {0} /\ Pages(m) \in Nat \ {0}
      /\ m <= Pages(m) * PageSize
      /\ Pages(n) = 1 \/ (Pages(n) - 1) * PageSize < n
  BY PagesAreExact
<1>2. CASE Pages(n) # 1
  <2>1. Pages(n) - 1 \in Nat
    BY <1>1
  <2>2. (Pages(n) - 1) * PageSize \in Nat /\ Pages(m) * PageSize \in Nat
    BY <1>1, <2>1, PageSizeAssumption
  <2>3. (Pages(n) - 1) * PageSize < Pages(m) * PageSize
    BY <1>1, <1>2, <2>2
  <2>4. Pages(n) - 1 < Pages(m)
    BY <1>1, <2>1, <2>3, MoreRows
  <2> QED  BY <1>1, <2>4
<1> QED  BY <1>1, <1>2

(* The pages that all the rows there can ever be would fill.               *)
WalkIsBounded == page <= Pages(Cardinality(Row)) /\ total <= Cardinality(Row)

LEMMA BoundedStep ==
  ASSUME TypeOK, WalkIsBounded, [Next]_vars
  PROVE  WalkIsBounded'
<1>1. Cardinality(Row) \in Nat
  BY RowAssumption, FS_CardinalityType
<1>2. CASE UNCHANGED <<page, total>>
  BY <1>2 DEF WalkIsBounded
<1>3. CASE CountRows
  <2>1. Visible \in SUBSET Row
    BY DEF Visible
  <2>2. Cardinality(Visible) <= Cardinality(Row)
    BY <2>1, RowAssumption, FS_Subset
  <2> QED  BY <1>3, <2>2 DEF CountRows, WalkIsBounded
<1>4. CASE Answer
  <2>1. total \in Nat /\ total <= Cardinality(Row) /\ total' = total
    BY <1>4 DEF TypeOK, WalkIsBounded, Answer, rows
  <2>2. Pages(total) <= Pages(Cardinality(Row))
    BY <1>1, <2>1, PagesGrow
  <2>3. Pages(total) \in Nat /\ Pages(Cardinality(Row)) \in Nat /\ page \in Nat
    BY <1>1, <2>1, PagesAreExact DEF TypeOK
  <2>4. page' = page \/ (page < Pages(total) /\ page' = page + 1)
    BY <1>4 DEF Answer
  <2> QED  BY <2>1, <2>2, <2>3, <2>4 DEF WalkIsBounded
<1> QED
  BY <1>2, <1>3, <1>4
  DEF Next, vars, rows, reader, BeginRow, CommitRow, RollBackRow, DeleteRow,
    DeleteConversation, Tick, StartReading, CheckExists, ListPage, RequestFails

(* A client that asks for the next page while there is one comes to an     *)
(* end, however many rows are written meanwhile: it is never sent on to a  *)
(* page that all the rows together could not reach.                        *)
THEOREM WalkBounded == Spec => []WalkIsBounded
<1>1. Init => WalkIsBounded
  <2>1. Cardinality(Row) \in Nat
    BY RowAssumption, FS_CardinalityType
  <2>2. Pages(Cardinality(Row)) \in Nat \ {0}
    BY <2>1, PagesAreExact
  <2> QED  BY <2>1, <2>2 DEF Init, WalkIsBounded
<1>2. TypeOK /\ WalkIsBounded /\ [Next]_vars => WalkIsBounded'
  BY BoundedStep
<1> QED  BY <1>1, <1>2, TypeCorrect, PTL DEF Spec
=============================================================================
