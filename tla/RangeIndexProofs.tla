-------------------------- MODULE RangeIndexProofs --------------------------
(***************************************************************************)
(* Proofs about RangeIndex, for all documents, fields, values and queries, *)
(* every size of a leaf and any number of calls.                           *)
(*                                                                         *)
(* The argument.  Entries in the tree share the maps of kdEntries (Shared),*)
(* which hold what the documents in the store hold (Holding), and nothing  *)
(* for a document that is not there (Absent).  A document that was not     *)
(* written since the last flush is in a leaf whose box has all its values  *)
(* (Boxed), so a query that it satisfies does not pass the leaf by.        *)
(***************************************************************************)
EXTENDS RangeIndex, TLAPS

-----------------------------------------------------------------------------
(* The inductive invariant.                                                *)

Writing(d)  == op # NoOp /\ op.doc = d
Deleting(d) == Writing(d) /\ op.numbers = NoEntry

\* Index is at one of the fields it was given, Delete at none.
Steps ==
    /\ op # NoOp => op.doc \in dirty
    /\ op # NoOp /\ op.numbers = NoEntry => todo = {}
    /\ op # NoOp /\ op.numbers # NoEntry => \A f \in todo : op.numbers[f] # NoValue

Shared ==
    \A d \in Docs : inTree[d] # NoEntry /\ ~ Deleting(d) => inTree[d] = kdEntries[d]

\* kdEntries has the fields of a document, or those Index has come to.
Has(d, numbers, fields) ==
    \A f \in fields :
        numbers[f] # NoValue => kdEntries[d] # NoEntry /\ kdEntries[d][f] = numbers[f]

Holding ==
    /\ \A d \in Docs : stored[d] # NoEntry /\ ~ Writing(d) => Has(d, stored[d], Fields)
    /\ op # NoOp /\ op.numbers # NoEntry => Has(op.doc, op.numbers, Fields \ todo)

Absent ==
    \A d \in Docs :
        (stored[d] = NoEntry /\ ~ Writing(d)) \/ Deleting(d) => kdEntries[d] = NoEntry

\* A leaf has the document in it, and the values of its entry in its box.
Boxes(leaf, d) ==
    /\ d \in leaf.docs
    /\ \A f \in Fields : kdEntries[d][f] # NoValue => kdEntries[d][f] \in leaf.box[f]

Boxed ==
    leaves # {} =>
        \A d \in Docs \ dirty :
            kdEntries[d] # NoEntry =>
                inTree[d] # NoEntry /\ \E leaf \in leaves : Boxes(leaf, d)

IInv == TypeOK /\ Steps /\ Shared /\ Holding /\ Absent /\ Boxed

-----------------------------------------------------------------------------
(* Every step keeps the invariant, part by part.                           *)

\* No value and no entry are told apart from the others.
LEMMA Constants ==
    /\ NoValue \notin Values /\ NoBound \notin Values /\ NoEntry \notin Numbers
    /\ Empty \in Numbers /\ NoField \notin Fields
    /\ \A d \in Docs, e \in Entry : NoOp # [doc |-> d, numbers |-> e]
<1>1. NoValue \notin Values /\ NoBound \notin Values
  BY NoneAssumption, ValuesAssumption
<1>2. Empty \in Numbers
  BY DEF Empty, Numbers
<1>3. ASSUME NEW d \in Docs, NEW e \in Entry
      PROVE  NoOp # [doc |-> d, numbers |-> e]
  BY NoneAssumption
<1> QED
  BY <1>1, <1>2, <1>3, NoneAssumption

\* What a flush builds.
LEMMA BuildFacts ==
    ASSUME TypeOK, Build
    PROVE  /\ leaves' \subseteq Leaf
           /\ inTree' = kdEntries
           /\ \A d \in Docs : kdEntries[d] # NoEntry => \E leaf \in leaves' : Boxes(leaf, d)
<1>1. PICK p \in Partitions(Entered) :
         /\ leaves' = {[docs |-> s, box |-> Box(s)] : s \in p}
         /\ inTree' = kdEntries
  BY DEF Build
<1>2. \A s \in p : s \subseteq Entered
  BY <1>1 DEF Partitions
<1>3. \A d \in Entered : kdEntries[d] \in Numbers /\ d \in Docs
  BY DEF Entered, TypeOK, Entry
<1>4. \A s \in p : [docs |-> s, box |-> Box(s)] \in Leaf
  <2> SUFFICES ASSUME NEW s \in p
               PROVE  s \subseteq Docs /\ Box(s) \in [Fields -> SUBSET (Values \cup {0})]
    BY DEF Leaf
  <2>1. s \subseteq Docs
    BY <1>2, <1>3
  <2>2. ASSUME NEW f \in Fields
        PROVE  {kdEntries[d][f] : d \in Having(s, f)} \subseteq Values
    BY <1>2, <1>3 DEF Having, Numbers
  <2> QED
    BY <2>1, <2>2 DEF Box
<1>5. ASSUME NEW d \in Docs, kdEntries[d] # NoEntry
      PROVE  \E leaf \in leaves' : Boxes(leaf, d)
  <2>1. d \in Entered
    BY <1>5 DEF Entered
  <2>2. PICK s \in p : d \in s
    BY <1>1, <2>1 DEF Partitions
  <2>3. ASSUME NEW f \in Fields, kdEntries[d][f] # NoValue
        PROVE  kdEntries[d][f] \in Box(s)[f]
    BY <2>1, <2>2, <2>3 DEF Box, Having
  <2>4. Boxes([docs |-> s, box |-> Box(s)], d)
    BY <2>2, <2>3 DEF Boxes
  <2> QED
    BY <1>1, <2>2, <2>4
<1> QED
  BY <1>1, <1>4, <1>5

\* A flush, which finds entries or none.
LEMMA FlushFacts ==
    ASSUME TypeOK, Flush
    PROVE  /\ leaves' \subseteq Leaf /\ inTree' \in [Docs -> Entry]
           /\ buffered' = FALSE /\ dirty' = IF op = NoOp THEN {} ELSE {op.doc}
           /\ dirty' \subseteq Docs
           /\ \A d \in Docs : kdEntries[d] # NoEntry =>
                 inTree'[d] # NoEntry /\ \E leaf \in leaves' : Boxes(leaf, d)
           /\ \/ inTree' = kdEntries
              \/ inTree' = inTree /\ \A d \in Docs : kdEntries[d] = NoEntry
<1>0. buffered' = FALSE /\ dirty' = (IF op = NoOp THEN {} ELSE {op.doc}) /\ dirty' \subseteq Docs
  BY DEF Flush, TypeOK
<1>1. CASE Entered = {}
  <2>1. \A d \in Docs : kdEntries[d] = NoEntry
    BY <1>1 DEF Entered
  <2> QED
    BY <1>0, <1>1, <2>1 DEF Flush, TypeOK
<1>2. CASE Entered # {}
  <2>1. Build
    BY <1>2 DEF Flush
  <2>2. leaves' \subseteq Leaf /\ inTree' = kdEntries /\ kdEntries \in [Docs -> Entry]
    BY <2>1, BuildFacts DEF TypeOK
  <2>3. ASSUME NEW d \in Docs, kdEntries[d] # NoEntry
        PROVE  \E leaf \in leaves' : Boxes(leaf, d)
    BY <2>1, <2>3, BuildFacts
  <2> QED
    BY <1>0, <2>2, <2>3
<1> QED
  BY <1>1, <1>2

\* What AddNumeric writes, to kdEntries and through it to the tree.
LEMMA AddFacts ==
    ASSUME TypeOK, Steps, AddNumeric
    PROVE  /\ raw \in Fields /\ raw \in todo /\ todo' = todo \ {raw}
           /\ op # NoOp /\ op.doc \in Docs /\ op.numbers \in Numbers
           /\ op.numbers[raw] # NoValue
           /\ kdEntries' \in [Docs -> Entry] /\ inTree' \in [Docs -> Entry]
           /\ kdEntries'[op.doc] \in Numbers /\ kdEntries'[op.doc][raw] = op.numbers[raw]
           /\ kdEntries[op.doc] # NoEntry =>
                 \A f \in Fields \ {raw} : kdEntries'[op.doc][f] = kdEntries[op.doc][f]
           /\ inTree[op.doc] = NoEntry => inTree'[op.doc] = NoEntry
           /\ inTree[op.doc] # NoEntry => inTree'[op.doc] = kdEntries'[op.doc]
           /\ \A d \in Docs : d # op.doc => kdEntries'[d] = kdEntries[d] /\ inTree'[d] = inTree[d]
<1> DEFINE d   == op.doc
           old == IF kdEntries[d] = NoEntry THEN Empty ELSE kdEntries[d]
           new == [old EXCEPT ![raw] = op.numbers[raw]]
<1>1. raw \in todo /\ raw \in Fields /\ todo' = todo \ {raw} /\ op # NoOp
  BY DEF AddNumeric, TypeOK
<1>2. d \in Docs /\ op.numbers \in Entry /\ op.numbers # NoEntry
  BY <1>1 DEF TypeOK, Steps
<1>3. op.numbers \in Numbers /\ op.numbers[raw] \in Values \cup {NoValue} /\ op.numbers[raw] # NoValue
  BY <1>1, <1>2 DEF Entry, Numbers, Steps
<1>4. old \in Numbers
  BY <1>2, Constants DEF TypeOK, Entry
<1>5. new \in Numbers /\ new[raw] = op.numbers[raw] /\ \A f \in Fields \ {raw} : new[f] = old[f]
  BY <1>1, <1>3, <1>4 DEF Numbers
<1>6. /\ kdEntries' = [kdEntries EXCEPT ![d] = new]
      /\ inTree' = IF inTree[d] = NoEntry THEN inTree ELSE [inTree EXCEPT ![d] = new]
  BY DEF AddNumeric
<1>7. /\ kdEntries' \in [Docs -> Entry] /\ kdEntries'[d] = new
      /\ \A x \in Docs : x # d => kdEntries'[x] = kdEntries[x]
  BY <1>2, <1>5, <1>6 DEF TypeOK, Entry
<1>8. /\ inTree' \in [Docs -> Entry]
      /\ inTree[d] = NoEntry => inTree'[d] = NoEntry
      /\ inTree[d] # NoEntry => inTree'[d] = new
      /\ \A x \in Docs : x # d => inTree'[x] = inTree[x]
  BY <1>2, <1>5, <1>6 DEF TypeOK, Entry
<1> QED
  BY <1>1, <1>2, <1>3, <1>5, <1>7, <1>8

\* The variables keep their types.
LEMMA TypeStep == IInv /\ [Next]_vars => TypeOK'
<1> SUFFICES ASSUME IInv, [Next]_vars
             PROVE  TypeOK'
  OBVIOUS
<1>0. TypeOK /\ Steps
  BY DEF IInv
<1>1. ASSUME NEW d \in Docs, NEW numbers \in Numbers, Index(d, numbers)
      PROVE  TypeOK'
  <2>1. [doc |-> d, numbers |-> numbers] \in [doc : Docs, numbers : Entry]
    BY DEF Entry
  <2>2. calls' \in 0..MaxCalls
    BY <1>0, <1>1, BoundAssumption DEF Index, Begin, TypeOK
  <2>3. op' # NoOp /\ raw = NoField
    BY <1>0, <1>1, <2>1, Constants DEF Index, Begin, TypeOK, Entry
  <2> QED
    BY <1>0, <1>1, <2>1, <2>2, <2>3 DEF Index, Begin, TypeOK
<1>2. ASSUME NEW d \in Docs, Delete(d)
      PROVE  TypeOK'
  <2>1. [doc |-> d, numbers |-> NoEntry] \in [doc : Docs, numbers : Entry]
    BY DEF Entry
  <2>2. calls' \in 0..MaxCalls
    BY <1>0, <1>2, BoundAssumption DEF Delete, Begin, TypeOK
  <2>3. kdEntries' \in [Docs -> Entry]
    BY <1>0, <1>2 DEF Delete, TypeOK, Entry
  <2> QED
    BY <1>0, <1>2, <2>1, <2>2, <2>3, Constants DEF Delete, Begin, TypeOK
<1>3. ASSUME NEW f \in Fields, AddRaw(f)
      PROVE  TypeOK'
  <2>1. CASE UNCHANGED <<leaves, inTree, dirty>> /\ buffered' = TRUE
    BY <1>0, <1>3, <2>1 DEF AddRaw, TypeOK
  <2>2. CASE Flush
    BY <1>0, <1>3, <2>2, FlushFacts DEF AddRaw, TypeOK
  <2> QED
    BY <1>3, <2>1, <2>2 DEF AddRaw
<1>4. ASSUME AddOther
      PROVE  TypeOK'
  <2>1. CASE UNCHANGED <<leaves, inTree, dirty>> /\ buffered' = TRUE
    BY <1>0, <1>4, <2>1 DEF AddOther, TypeOK
  <2>2. CASE Flush
    BY <1>0, <1>4, <2>2, FlushFacts DEF AddOther, TypeOK
  <2> QED
    BY <1>4, <2>1, <2>2 DEF AddOther
<1>5. ASSUME AddNumeric
      PROVE  TypeOK'
  <2>1. raw' = NoField /\ UNCHANGED <<leaves, buffered, op, stored, calls, dirty>>
    BY <1>5 DEF AddNumeric
  <2> QED
    BY <1>0, <1>5, <2>1, AddFacts DEF TypeOK
<1>6. ASSUME Put
      PROVE  TypeOK'
  <2>1. op.doc \in Docs /\ op.numbers \in Entry
    BY <1>0, <1>6 DEF Put, TypeOK
  <2>2. stored' \in [Docs -> Entry]
    BY <1>0, <1>6, <2>1 DEF Put, TypeOK
  <2> QED
    BY <1>0, <1>6, <2>2 DEF Put, TypeOK
<1>7. ASSUME TreeDelete
      PROVE  TypeOK'
  <2>1. inTree' \in [Docs -> Entry] /\ stored' \in [Docs -> Entry]
    BY <1>0, <1>7 DEF TreeDelete, TypeOK, Entry
  <2> QED
    BY <1>0, <1>7, <2>1 DEF TreeDelete, TypeOK, Steps
<1>8. ASSUME TimerFlush
      PROVE  TypeOK'
  BY <1>0, <1>8, FlushFacts DEF TimerFlush, TypeOK
<1>9. ASSUME UNCHANGED vars
      PROVE  TypeOK'
  BY <1>0, <1>9, Constants DEF vars, TypeOK
<1> QED
  BY <1>1, <1>2, <1>3, <1>4, <1>5, <1>6, <1>7, <1>8, <1>9 DEF Next, CallStep

\* Index comes to no field it was not given.
LEMMA StepsStep == IInv /\ [Next]_vars => Steps'
<1> SUFFICES ASSUME IInv, [Next]_vars
             PROVE  Steps'
  OBVIOUS
<1>0. TypeOK /\ Steps
  BY DEF IInv
<1>1. ASSUME NEW d \in Docs, NEW numbers \in Numbers, Index(d, numbers)
      PROVE  Steps'
  BY <1>0, <1>1, Constants DEF Index, Begin, Steps, TypeOK
<1>2. ASSUME NEW d \in Docs, Delete(d)
      PROVE  Steps'
  BY <1>0, <1>2, Constants DEF Delete, Begin, Steps, TypeOK
<1>3. ASSUME NEW f \in Fields, AddRaw(f)
      PROVE  Steps'
  <2>1. CASE UNCHANGED dirty
    BY <1>0, <1>3, <2>1 DEF AddRaw, Steps
  <2>2. CASE Flush
    BY <1>0, <1>3, <2>2, FlushFacts DEF AddRaw, Steps
  <2> QED
    BY <1>3, <2>1, <2>2 DEF AddRaw
<1>4. ASSUME AddOther
      PROVE  Steps'
  <2>1. CASE UNCHANGED dirty
    BY <1>0, <1>4, <2>1 DEF AddOther, Steps
  <2>2. CASE Flush
    BY <1>0, <1>4, <2>2, FlushFacts DEF AddOther, Steps
  <2> QED
    BY <1>4, <2>1, <2>2 DEF AddOther
<1>5. ASSUME AddNumeric
      PROVE  Steps'
  BY <1>0, <1>5, Constants DEF AddNumeric, Steps, TypeOK
<1>6. ASSUME Put
      PROVE  Steps'
  BY <1>0, <1>6, Constants DEF Put, Steps, TypeOK
<1>7. ASSUME TreeDelete
      PROVE  Steps'
  BY <1>0, <1>7, Constants DEF TreeDelete, Steps, TypeOK
<1>8. ASSUME TimerFlush
      PROVE  Steps'
  BY <1>0, <1>8, FlushFacts DEF TimerFlush, Steps
<1>9. ASSUME UNCHANGED vars
      PROVE  Steps'
  BY <1>0, <1>9, Constants DEF vars, Steps, TypeOK
<1> QED
  BY <1>1, <1>2, <1>3, <1>4, <1>5, <1>6, <1>7, <1>8, <1>9 DEF Next, CallStep

\* The tree sees what AddNumeric writes.
LEMMA SharedStep == IInv /\ [Next]_vars => Shared'
<1> SUFFICES ASSUME IInv, [Next]_vars
             PROVE  Shared'
  OBVIOUS
<1>0. TypeOK /\ Steps /\ Shared
  BY DEF IInv
<1>1. ASSUME NEW d \in Docs, NEW numbers \in Numbers, Index(d, numbers)
      PROVE  Shared'
  BY <1>0, <1>1, Constants DEF Index, Begin, Shared, Deleting, Writing, TypeOK
<1>2. ASSUME NEW d \in Docs, Delete(d)
      PROVE  Shared'
  <2>1. op' = [doc |-> d, numbers |-> NoEntry] /\ op = NoOp
    BY <1>2 DEF Delete, Begin
  <2>2. \A x \in Docs : x # d => kdEntries'[x] = kdEntries[x]
    BY <1>0, <1>2 DEF Delete, TypeOK
  <2>3. UNCHANGED <<inTree, stored>>
    BY <1>2 DEF Delete
  <2>4. op' # NoOp
    BY <2>1, Constants DEF Entry
  <2> QED
    BY <1>0, <2>1, <2>2, <2>3, <2>4 DEF Shared, Deleting, Writing
<1>3. ASSUME NEW f \in Fields, AddRaw(f)
      PROVE  Shared'
  <2>1. CASE UNCHANGED inTree
    BY <1>0, <1>3, <2>1 DEF AddRaw, Shared, Deleting, Writing
  <2>2. CASE Flush
    BY <1>0, <1>3, <2>2, FlushFacts DEF AddRaw, Shared, Deleting, Writing
  <2> QED
    BY <1>3, <2>1, <2>2 DEF AddRaw
<1>4. ASSUME AddOther
      PROVE  Shared'
  <2>1. CASE UNCHANGED inTree
    BY <1>0, <1>4, <2>1 DEF AddOther, Shared, Deleting, Writing
  <2>2. CASE Flush
    BY <1>0, <1>4, <2>2, FlushFacts DEF AddOther, Shared, Deleting, Writing
  <2> QED
    BY <1>4, <2>1, <2>2 DEF AddOther
<1>5. ASSUME AddNumeric
      PROVE  Shared'
  <2>1. UNCHANGED op
    BY <1>5 DEF AddNumeric
  <2> QED
    BY <1>0, <1>5, <2>1, AddFacts DEF Shared, Deleting, Writing
<1>6. ASSUME Put
      PROVE  Shared'
  BY <1>0, <1>6, Constants DEF Put, Shared, Deleting, Writing, TypeOK
<1>7. ASSUME TreeDelete
      PROVE  Shared'
  BY <1>0, <1>7, Constants DEF TreeDelete, Shared, Deleting, Writing, TypeOK
<1>8. ASSUME TimerFlush
      PROVE  Shared'
  BY <1>0, <1>8, FlushFacts DEF TimerFlush, Shared, Deleting, Writing
<1>9. ASSUME UNCHANGED vars
      PROVE  Shared'
  BY <1>0, <1>9, Constants DEF vars, Shared, Deleting, Writing, TypeOK
<1> QED
  BY <1>1, <1>2, <1>3, <1>4, <1>5, <1>6, <1>7, <1>8, <1>9 DEF Next, CallStep

\* kdEntries has what the store has.
LEMMA HoldingStep == IInv /\ [Next]_vars => Holding'
<1> SUFFICES ASSUME IInv, [Next]_vars
             PROVE  Holding'
  OBVIOUS
<1>0. TypeOK /\ Steps /\ Holding
  BY DEF IInv
<1>1. ASSUME NEW d \in Docs, NEW numbers \in Numbers, Index(d, numbers)
      PROVE  Holding'
  BY <1>0, <1>1, Constants DEF Index, Begin, Holding, Has, Writing, TypeOK
<1>2. ASSUME NEW d \in Docs, Delete(d)
      PROVE  Holding'
  <2>1. op' = [doc |-> d, numbers |-> NoEntry] /\ op = NoOp
    BY <1>2 DEF Delete, Begin
  <2>2. \A x \in Docs : x # d => kdEntries'[x] = kdEntries[x]
    BY <1>0, <1>2 DEF Delete, TypeOK
  <2>3. UNCHANGED <<inTree, stored>>
    BY <1>2 DEF Delete
  <2>4. op' # NoOp
    BY <2>1, Constants DEF Entry
  <2> QED
    BY <1>0, <2>1, <2>2, <2>3, <2>4 DEF Holding, Has, Writing
<1>3. ASSUME NEW f \in Fields, AddRaw(f)
      PROVE  Holding'
  BY <1>0, <1>3, Constants DEF AddRaw, Holding, Has, Writing, TypeOK
<1>4. ASSUME AddOther
      PROVE  Holding'
  BY <1>0, <1>4, Constants DEF AddOther, Holding, Has, Writing, TypeOK
<1>5. ASSUME AddNumeric
      PROVE  Holding'
  <2>1. UNCHANGED <<op, stored>>
    BY <1>5 DEF AddNumeric
  <2>2. ASSUME NEW d \in Docs, stored[d] # NoEntry, ~ Writing(d)
        PROVE  Has(d, stored[d], Fields)'
    <3>1. d # op.doc
      BY <1>0, <1>5, <2>2, AddFacts DEF Writing
    <3> QED
      BY <1>0, <1>5, <2>1, <2>2, <3>1, AddFacts DEF Holding, Has
  <2>3. Has(op.doc, op.numbers, Fields \ todo)'
    <3> SUFFICES ASSUME NEW f \in Fields \ todo', op.numbers[f] # NoValue
                 PROVE  kdEntries'[op.doc] # NoEntry /\ kdEntries'[op.doc][f] = op.numbers[f]
      BY <2>1 DEF Has
    <3>1. CASE f = raw
      BY <1>0, <1>5, <3>1, AddFacts, Constants
    <3>2. CASE f # raw
      <4>1. kdEntries[op.doc] # NoEntry /\ kdEntries[op.doc][f] = op.numbers[f]
        BY <1>0, <1>5, <3>2, AddFacts, Constants DEF Holding, Has
      <4> QED
        BY <1>0, <1>5, <3>2, <4>1, AddFacts, Constants
    <3> QED
      BY <3>1, <3>2
  <2> QED
    BY <2>1, <2>2, <2>3 DEF Holding, Writing
<1>6. ASSUME Put
      PROVE  Holding'
  BY <1>0, <1>6, Constants DEF Put, Holding, Has, Writing, TypeOK
<1>7. ASSUME TreeDelete
      PROVE  Holding'
  BY <1>0, <1>7, Constants DEF TreeDelete, Holding, Has, Writing, TypeOK
<1>8. ASSUME TimerFlush
      PROVE  Holding'
  BY <1>0, <1>8, Constants DEF TimerFlush, Holding, Has, Writing, TypeOK
<1>9. ASSUME UNCHANGED vars
      PROVE  Holding'
  BY <1>0, <1>9, Constants DEF vars, Holding, Has, Writing, TypeOK
<1> QED
  BY <1>1, <1>2, <1>3, <1>4, <1>5, <1>6, <1>7, <1>8, <1>9 DEF Next, CallStep

\* kdEntries has nothing of a document that is not there.
LEMMA AbsentStep == IInv /\ [Next]_vars => Absent'
<1> SUFFICES ASSUME IInv, [Next]_vars
             PROVE  Absent'
  OBVIOUS
<1>0. TypeOK /\ Steps /\ Absent
  BY DEF IInv
<1>1. ASSUME NEW d \in Docs, NEW numbers \in Numbers, Index(d, numbers)
      PROVE  Absent'
  BY <1>0, <1>1, Constants DEF Index, Begin, Absent, Deleting, Writing, TypeOK
<1>2. ASSUME NEW d \in Docs, Delete(d)
      PROVE  Absent'
  BY <1>0, <1>2, Constants DEF Delete, Begin, Absent, Deleting, Writing, TypeOK
<1>3. ASSUME NEW f \in Fields, AddRaw(f)
      PROVE  Absent'
  BY <1>0, <1>3, Constants DEF AddRaw, Absent, Deleting, Writing, TypeOK
<1>4. ASSUME AddOther
      PROVE  Absent'
  BY <1>0, <1>4, Constants DEF AddOther, Absent, Deleting, Writing, TypeOK
<1>5. ASSUME AddNumeric
      PROVE  Absent'
  <2>1. UNCHANGED <<op, stored>>
    BY <1>5 DEF AddNumeric
  <2>2. op.numbers # NoEntry
    BY <1>0, <1>5, AddFacts, Constants
  <2> QED
    BY <1>0, <1>5, <2>1, <2>2, AddFacts DEF Absent, Deleting, Writing
<1>6. ASSUME Put
      PROVE  Absent'
  BY <1>0, <1>6, Constants DEF Put, Absent, Deleting, Writing, TypeOK
<1>7. ASSUME TreeDelete
      PROVE  Absent'
  BY <1>0, <1>7, Constants DEF TreeDelete, Absent, Deleting, Writing, TypeOK
<1>8. ASSUME TimerFlush
      PROVE  Absent'
  BY <1>0, <1>8, Constants DEF TimerFlush, Absent, Deleting, Writing, TypeOK
<1>9. ASSUME UNCHANGED vars
      PROVE  Absent'
  BY <1>0, <1>9, Constants DEF vars, Absent, Deleting, Writing, TypeOK
<1> QED
  BY <1>1, <1>2, <1>3, <1>4, <1>5, <1>6, <1>7, <1>8, <1>9 DEF Next, CallStep

\* The boxes have the values of documents that were not written since.
LEMMA BoxedStep == IInv /\ [Next]_vars => Boxed'
<1> SUFFICES ASSUME IInv, [Next]_vars
             PROVE  Boxed'
  OBVIOUS
<1>0. TypeOK /\ Steps /\ Boxed
  BY DEF IInv
<1>1. ASSUME NEW d \in Docs, NEW numbers \in Numbers, Index(d, numbers)
      PROVE  Boxed'
  BY <1>0, <1>1, Constants DEF Index, Begin, Boxed, Boxes, TypeOK
<1>2. ASSUME NEW d \in Docs, Delete(d)
      PROVE  Boxed'
  BY <1>0, <1>2, Constants DEF Delete, Begin, Boxed, Boxes, TypeOK
<1>3. ASSUME NEW f \in Fields, AddRaw(f)
      PROVE  Boxed'
  <2>1. CASE UNCHANGED <<leaves, inTree, dirty>>
    BY <1>0, <1>3, <2>1 DEF AddRaw, Boxed, Boxes
  <2>2. CASE Flush
    BY <1>0, <1>3, <2>2, FlushFacts DEF AddRaw, Boxed, Boxes
  <2> QED
    BY <1>3, <2>1, <2>2 DEF AddRaw
<1>4. ASSUME AddOther
      PROVE  Boxed'
  <2>1. CASE UNCHANGED <<leaves, inTree, dirty>>
    BY <1>0, <1>4, <2>1 DEF AddOther, Boxed, Boxes
  <2>2. CASE Flush
    BY <1>0, <1>4, <2>2, FlushFacts DEF AddOther, Boxed, Boxes
  <2> QED
    BY <1>4, <2>1, <2>2 DEF AddOther
<1>5. ASSUME AddNumeric
      PROVE  Boxed'
  <2>1. UNCHANGED <<leaves, dirty>> /\ op.doc \in dirty
    BY <1>0, <1>5, AddFacts DEF AddNumeric, Steps
  <2> QED
    BY <1>0, <1>5, <2>1, AddFacts DEF Boxed, Boxes
<1>6. ASSUME Put
      PROVE  Boxed'
  BY <1>0, <1>6, Constants DEF Put, Boxed, Boxes, TypeOK
<1>7. ASSUME TreeDelete
      PROVE  Boxed'
  <2>1. op.doc \in dirty /\ UNCHANGED <<kdEntries, leaves, dirty>>
    BY <1>0, <1>7 DEF TreeDelete, Steps
  <2>2. \A d \in Docs \ dirty : inTree'[d] = inTree[d]
    BY <1>0, <1>7, <2>1 DEF TreeDelete, TypeOK
  <2> QED
    BY <1>0, <2>1, <2>2 DEF Boxed, Boxes
<1>8. ASSUME TimerFlush
      PROVE  Boxed'
  BY <1>0, <1>8, FlushFacts DEF TimerFlush, Boxed, Boxes
<1>9. ASSUME UNCHANGED vars
      PROVE  Boxed'
  BY <1>0, <1>9, Constants DEF vars, Boxed, Boxes, TypeOK
<1> QED
  BY <1>1, <1>2, <1>3, <1>4, <1>5, <1>6, <1>7, <1>8, <1>9 DEF Next, CallStep

\* Nothing is written yet.
LEMMA InvInit == Init => IInv
<1> SUFFICES ASSUME Init
             PROVE  IInv
  OBVIOUS
<1>1. TypeOK
  <2>1. [d \in Docs |-> NoEntry] \in [Docs -> Entry]
    BY DEF Entry
  <2>2. 0 \in 0..MaxCalls
    BY BoundAssumption
  <2> QED
    BY <2>1, <2>2 DEF Init, TypeOK
<1>2. Steps /\ Shared /\ Holding /\ Absent /\ Boxed
  BY DEF Init, Steps, Shared, Holding, Absent, Boxed
<1> QED
  BY <1>1, <1>2 DEF IInv

\* Every step keeps the invariant.
LEMMA InvStep == IInv /\ [Next]_vars => IInv'
BY TypeStep, StepsStep, SharedStep, HoldingStep, AbsentStep, BoxedStep DEF IInv

\* It holds in every state of every behaviour.
LEMMA Invariance == Spec => []IInv
BY InvInit, InvStep, PTL DEF Spec

-----------------------------------------------------------------------------
(* The theorems.                                                           *)

\* The entry of a document that a query can find, when no call is under way.
LEMMA FoundFacts ==
    ASSUME IInv, op = NoOp, NEW q \in Queries, NEW d \in MultiRangeQuery(q)
    PROVE  /\ d \in Docs /\ kdEntries[d] # NoEntry /\ stored[d] # NoEntry
           /\ \A b \in q : kdEntries[d][b.field] # NoValue => Within(b, kdEntries[d][b.field])
<1>1. d \in Docs /\ kdEntries[d] # NoEntry
  BY DEF IInv, Shared, Deleting, Writing, MultiRangeQuery, MultiRange, Scan
<1>2. stored[d] # NoEntry
  BY <1>1 DEF IInv, Absent, Writing
<1>3. CASE leaves # {}
  <2>1. inTree[d] = kdEntries[d] /\ \A b \in q : Within(b, Value(inTree[d], b.field))
    BY <1>3 DEF IInv, Shared, Deleting, Writing, MultiRangeQuery, MultiRange
  <2> QED
    BY <1>1, <1>2, <2>1 DEF Value
<1>4. CASE leaves = {}
  BY <1>1, <1>2, <1>4 DEF MultiRangeQuery, Scan
<1> QED
  BY <1>3, <1>4

\* A value within the bounds of a query keeps a box that has it from being
\* passed by.
LEMMA NotPruned ==
    ASSUME NEW q \in Queries, NEW leaf,
           \A b \in q : \E v \in leaf.box[b.field] : v \in Values /\ Within(b, v)
    PROVE  ~ Pruned(leaf, q)
<1> SUFFICES ASSUME NEW b \in q,
                    \/ b.gte # NoBound /\ \A v \in leaf.box[b.field] : v < b.gte
                    \/ b.lte # NoBound /\ \A v \in leaf.box[b.field] : v > b.lte
             PROVE  FALSE
  BY DEF Pruned
<1>1. PICK v \in leaf.box[b.field] : v \in Values /\ Within(b, v)
  OBVIOUS
<1>2. b \in Bounds
  BY QueriesAssumption
<1>3. v \in Int /\ (b.gte # NoBound => b.gte \in Int) /\ (b.lte # NoBound => b.lte \in Int)
  BY <1>1, <1>2, ValuesAssumption DEF Bounds
<1> QED
  BY <1>1, <1>3 DEF Within

\* The values of kdEntries and of the tree, its leaves and the state of a call
\* of Index or Delete keep their types; between calls no field is left over.
THEOREM TypeCorrect == Spec => []TypeOK
<1>1. IInv => TypeOK
  BY DEF IInv
<1> QED
  BY Invariance, <1>1, PTL

\* MultiRangeQuery never finds a document that Delete has removed, though
\* DeleteNumeric lets go of the lock between kdEntries and the tree.
THEOREM DeletedGoneCorrect == Spec => []DeletedGone
<1>1. IInv => DeletedGone
  BY FoundFacts DEF DeletedGone
<1> QED
  BY Invariance, <1>1, PTL

\* MultiRangeQuery finds no document by a value that AddNumeric replaced.
THEOREM NeverByOldValueCorrect == Spec => []NeverByOldValue
<1>1. IInv => NeverByOldValue
  <2> SUFFICES ASSUME IInv, op = NoOp, NEW q \in Queries, NEW d \in MultiRangeQuery(q),
                      HasFields(d, q), NEW b \in q
               PROVE  Within(b, stored[d][b.field])
    BY DEF NeverByOldValue, Satisfies
  <2>1. b.field \in Fields /\ d \in Docs
    BY QueriesAssumption, FoundFacts DEF Bounds
  <2>2. kdEntries[d][b.field] = stored[d][b.field] /\ stored[d][b.field] # NoValue
    BY <2>1 DEF IInv, Holding, Has, Writing, HasFields
  <2> QED
    BY <2>2, FoundFacts
<1> QED
  BY Invariance, <1>1, PTL

\* Once flushed, or before there is a tree, MultiRangeQuery finds a document
\* that has the fields exactly if they are within the bounds: what the boxes
\* of the tree pass by is never wanted, for every size of a leaf.
THEOREM SettledExactCorrect == Spec => []SettledExact
<1>1. IInv => SettledExact
  <2> SUFFICES ASSUME IInv, op = NoOp, NEW q \in Queries, NEW d \in Docs, HasFields(d, q),
                      leaves = {} \/ d \notin dirty
               PROVE  d \in MultiRangeQuery(q) <=> Satisfies(d, q)
    BY DEF SettledExact
  <2>1. \A b \in q : b.field \in Fields
    BY QueriesAssumption DEF Bounds
  <2>2. /\ kdEntries[d] # NoEntry
        /\ \A b \in q : /\ kdEntries[d][b.field] = stored[d][b.field]
                        /\ kdEntries[d][b.field] # NoValue
    <3>1. q # {}
      BY QueriesAssumption
    <3> QED
      BY <2>1, <3>1 DEF IInv, Holding, Has, Writing, HasFields
  <2>3. d \in MultiRangeQuery(q) => Satisfies(d, q)
    BY <2>2, FoundFacts DEF Satisfies
  <2>4. ASSUME Satisfies(d, q)
        PROVE  d \in MultiRangeQuery(q)
    <3>1. \A b \in q : Within(b, kdEntries[d][b.field])
      BY <2>2, <2>4 DEF Satisfies
    <3>2. CASE leaves = {}
      BY <2>2, <3>1, <3>2 DEF MultiRangeQuery, Scan
    <3>3. CASE leaves # {}
      <4>1. PICK leaf \in leaves : Boxes(leaf, d)
        BY <2>2, <3>3 DEF IInv, Boxed
      <4>2. inTree[d] # NoEntry /\ inTree[d] = kdEntries[d]
        BY <2>2, <3>3 DEF IInv, Boxed, Shared, Deleting, Writing
      <4>3. \A b \in q : kdEntries[d][b.field] \in Values
        BY <2>1, <2>2 DEF IInv, TypeOK, Entry, Numbers
      <4>4. \A b \in q : \E v \in leaf.box[b.field] : v \in Values /\ Within(b, v)
        BY <2>1, <2>2, <3>1, <4>1, <4>3 DEF Boxes
      <4>5. d \in leaf.docs /\ ~ Pruned(leaf, q)
        BY <4>1, <4>4, NotPruned DEF Boxes
      <4> QED
        BY <2>2, <3>1, <3>3, <4>2, <4>5 DEF MultiRangeQuery, MultiRange, Value
    <3> QED
      BY <3>2, <3>3
  <2> QED
    BY <2>3, <2>4
<1> QED
  BY Invariance, <1>1, PTL
=============================================================================
