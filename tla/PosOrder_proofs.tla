--------------------------- MODULE PosOrder_proofs ---------------------------
(***************************************************************************)
(* Theorems about PosOrder, for any number of terminals, orders and units. *)
(*                                                                         *)
(* What is read of an order without a lock is trusted when its version is  *)
(* still the current one.  The reason is Moved: whatever changes the rows  *)
(* of an order, the back office included, makes its version larger.  What  *)
(* the back office does not look at when it writes, the bill and the       *)
(* kitchen, is recorded in rewritten and copied.                           *)
(***************************************************************************)
EXTENDS PosOrder, TLAPS

(* What a terminal has read, while it still acts upon it.                  *)
Terminal(t) ==
  /\ pc[t] # "idle" => work[t] \in Orders /\ status[work[t]] # "none"
  /\ pc[t] \in {"reading", "open", "billing", "bill"} => seen[t].version <= version[work[t]]
  /\ pc[t] \in {"open", "bill"} /\ seen[t].version = version[work[t]]
       => seen[t].units = rows[work[t]]
  /\ pc[t] = "bill" => seen[t].units # {}

Uncreated == \A o \in Orders : status[o] = "none" => rows[o] = {} /\ o \notin billed

IInv == TypeOK /\ Uncreated /\ (\A t \in Terminals : Terminal(t))

Moved ==
  \A o \in Orders :
    /\ version[o] <= version'[o]
    /\ rows'[o] # rows[o] => version[o] < version'[o]
    /\ status'[o] = "none"
         => status[o] = "none" /\ rows'[o] = rows[o] /\ (o \in billed' => o \in billed)

(* A unit on an order, or on a page of it that can still be written back.  *)
Pages == {"open", "rewrite"}
Has(o, u) ==
  u \in rows[o] \/ \E t \in Terminals : pc[t] \in Pages /\ work[t] = o /\ u \in seen[t].units

(* The order that each unit is on, and what the kitchen has of it.         *)
Kitchen ==
  /\ \A o \in Orders, u \in Units : <<o, u>> \in sent => u \in rows[o]
  /\ \A o \in Orders, u \in Units : Has(o, u) => u \in punched
  /\ \A u \in Units \ punched : cooked[u] = 0
  /\ \A u \in Units \ copied : \A o1, o2 \in Orders : Has(o1, u) /\ Has(o2, u) => o1 = o2
  /\ \A u \in Units \ copied, o \in Orders :
       u \in rows[o] /\ <<o, u>> \notin sent => cooked[u] = 0

----------------------------------------------------------------------------
(* The parts of the actions.                                               *)
LEMMA TransitionTypes ==
  ASSUME TypeOK, NEW o \in Orders, NEW from, NEW action \in DOMAIN Transitions,
         Transition(o, from, action)
  PROVE  /\ status' \in [Orders -> Statuses]
         /\ status'[o] # "none"
         /\ \A other \in Orders \ {o} : status'[other] = status[other]
<1>1. PICK edge \in Transitions[action] : status' = [status EXCEPT ![o] = edge[2]]
  BY DEF Transition
<1>2. edge[2] \in Statuses \ {"none"}
  BY DEF Transitions, Statuses
<1> QED  BY <1>1, <1>2 DEF TypeOK

LEMMA BumpMoves ==
  ASSUME TypeOK, NEW changed \in SUBSET Orders, Bump(changed)
  PROVE  /\ version' \in [Orders -> Nat]
         /\ \A o \in Orders : version[o] <= version'[o]
         /\ \A o \in changed : version[o] < version'[o]
  BY DEF TypeOK, Bump

(* A terminal that does nothing keeps what it knows.                       *)
LEMMA Bystander ==
  ASSUME IInv, TypeOK', Moved, NEW t \in Terminals,
         pc'[t] = pc[t], work'[t] = work[t], seen'[t] = seen[t]
  PROVE  Terminal(t)'
<1> Terminal(t)  BY DEF IInv
<1>1. CASE pc[t] = "idle"
  BY <1>1 DEF Terminal
<1>2. CASE pc[t] # "idle"
  <2> DEFINE o == work[t]
  <2>1. o \in Orders
    BY <1>2 DEF Terminal
  <2>2. version[o] \in Nat /\ version'[o] \in Nat /\ seen[t].version \in Nat
    BY <2>1 DEF IInv, TypeOK
  <2>3. version[o] <= version'[o] /\ (rows'[o] # rows[o] => version[o] < version'[o])
    BY <2>1 DEF Moved
  <2>4. status[o] # "none" /\ status'[o] # "none"
    BY <1>2, <2>1 DEF Terminal, Moved
  <2> QED  BY <2>1, <2>2, <2>3, <2>4 DEF Terminal
<1> QED  BY <1>1, <1>2

(* A terminal takes up an order, goes on with it, or is done with it.      *)
Local == [status: Statuses, version: Nat, units: SUBSET Units]
LocalTypes ==
  /\ pc \in [Terminals -> Steps]
  /\ work \in [Terminals -> Orders \cup {NoOrder}]
  /\ seen \in [Terminals -> Local]

LEMMA Begins ==
  ASSUME TypeOK, NEW t \in Terminals, NEW p \in Steps, NEW o \in Orders, NEW what \in Local,
         Begin(t, p, o, what)
  PROVE  /\ LocalTypes'
         /\ pc'[t] = p /\ work'[t] = o /\ seen'[t] = what
         /\ \A s \in Terminals \ {t} : pc'[s] = pc[s] /\ work'[s] = work[s] /\ seen'[s] = seen[s]
  BY DEF TypeOK, LocalTypes, Local, Begin

LEMMA Proceeds ==
  ASSUME TypeOK, NEW t \in Terminals, NEW p, NEW q \in Steps, NEW what \in Local,
         Proceed(t, p, q, what)
  PROVE  /\ LocalTypes'
         /\ pc'[t] = q /\ work'[t] = work[t] /\ seen'[t] = what
         /\ \A s \in Terminals \ {t} : pc'[s] = pc[s] /\ work'[s] = work[s] /\ seen'[s] = seen[s]
  BY DEF TypeOK, LocalTypes, Local, Proceed

LEMMA Finishes ==
  ASSUME TypeOK, NEW t \in Terminals, NEW p, Finish(t, p)
  PROVE  /\ LocalTypes'
         /\ pc'[t] = "idle"
         /\ \A s \in Terminals \ {t} : pc'[s] = pc[s] /\ work'[s] = work[s] /\ seen'[s] = seen[s]
  BY DEF TypeOK, LocalTypes, Local, Finish, Nothing, Statuses, Steps

LEMMA NothingIsLocal == Nothing \in Local
  BY DEF Nothing, Local, Statuses

(* Steps in which no terminal moves, and steps of one terminal.            *)
LEMMA OfNoTerminal ==
  ASSUME IInv, TypeOK', Moved, UNCHANGED termVars
  PROVE  IInv'
<1>1. \A t \in Terminals : Terminal(t)'
  BY Bystander DEF termVars
<1>2. Uncreated'
  BY DEF IInv, Uncreated, Moved
<1> QED  BY <1>1, <1>2 DEF IInv

LEMMA OfOneTerminal ==
  ASSUME IInv, TypeOK', Moved, NEW t \in Terminals, Terminal(t)',
         \A s \in Terminals \ {t} : pc'[s] = pc[s] /\ work'[s] = work[s] /\ seen'[s] = seen[s]
  PROVE  IInv'
<1>1. \A s \in Terminals \ {t} : Terminal(s)'
  BY Bystander
<1>2. Uncreated'
  BY DEF IInv, Uncreated, Moved
<1> QED  BY <1>1, <1>2 DEF IInv

LEMMA StillMoves ==
  ASSUME TypeOK, UNCHANGED <<version, itemVars, billVars>>,
         \A o \in Orders : status'[o] = "none" => status[o] = "none"
  PROVE  Moved
  BY DEF TypeOK, Moved, itemVars, billVars

----------------------------------------------------------------------------
(* The actions.                                                            *)
(* Steps in which a terminal only reads, or the status only changes.       *)
LEMMA StatusChanges ==
  ASSUME TypeOK, NEW o \in Orders, NEW from, NEW action \in DOMAIN Transitions,
         Transition(o, from, action), UNCHANGED <<version, itemVars, billVars>>
  PROVE  Moved
<1>1. \A p \in Orders : status'[p] = "none" => status[p] = "none"
  BY TransitionTypes
<1> QED  BY <1>1, StillMoves

----------------------------------------------------------------------------
(* The actions that no terminal has a part in.                             *)
LEMMA CreateKeeps ==
  ASSUME IInv, NEW o \in Orders, Create(o)
  PROVE  TypeOK' /\ Moved
<1> TypeOK  BY DEF IInv
<1>1. /\ status' \in [Orders -> Statuses]
      /\ \A p \in Orders : status'[p] = "none" => status[p] = "none" /\ p # o
  BY TransitionTypes DEF Create, Transitions
<1>2. UNCHANGED billed
  BY DEF Create, billVars
<1>3. CASE UNCHANGED <<itemVars, version>>
  BY <1>1, <1>3, StillMoves DEF Create, TypeOK, kitchenVars, billVars, termVars, itemVars
<1>4. ASSUME NEW lines \in SUBSET (Units \ punched), WriteItems(o, lines), Bump({o})
      PROVE  TypeOK' /\ Moved
  <2>1. rows' = [rows EXCEPT ![o] = lines] /\ punched' = punched \cup lines
    BY <1>4 DEF WriteItems
  <2>2. Moved
    BY <1>1, <1>2, <1>4, <2>1, BumpMoves DEF TypeOK, Moved
  <2>3. TypeOK'
    BY <1>1, <1>4, <2>1, BumpMoves DEF Create, TypeOK, kitchenVars, billVars, termVars
  <2> QED  BY <2>2, <2>3
<1> QED  BY <1>3, <1>4 DEF Create

LEMMA VoidItemKeeps ==
  ASSUME IInv, NEW o \in Orders, NEW u \in Units, VoidItem(o, u)
  PROVE  TypeOK' /\ Moved
<1> TypeOK  BY DEF IInv
<1>1. rows' = [rows EXCEPT ![o] = @ \ {u}] /\ UNCHANGED <<status, billed>> /\ status[o] # "none"
  BY DEF VoidItem, Editable, billVars
<1>2. Moved
  BY <1>1, BumpMoves DEF VoidItem, TypeOK, Moved
<1>3. TypeOK'
  BY <1>1, BumpMoves DEF VoidItem, TypeOK, billVars, termVars
<1> QED  BY <1>2, <1>3

(* Cancelling and reopening: the status and the version, not the rows.     *)
LEMMA StatusMoves ==
  ASSUME IInv, NEW o \in Orders, NEW action \in DOMAIN Transitions,
         Transition(o, status[o], action), Bump({o}),
         UNCHANGED <<itemVars, kitchenVars, billVars, termVars>>
  PROVE  TypeOK' /\ Moved
<1> TypeOK  BY DEF IInv
<1>1. /\ status' \in [Orders -> Statuses]
      /\ \A p \in Orders : status'[p] = "none" => status[p] = "none"
  BY TransitionTypes
<1>2. Moved
  BY <1>1, BumpMoves DEF TypeOK, Moved, itemVars, billVars
<1>3. TypeOK'
  BY <1>1, BumpMoves DEF TypeOK, itemVars, kitchenVars, billVars, termVars
<1> QED  BY <1>2, <1>3

LEMMA MergeKeeps ==
  ASSUME IInv, NEW target \in Orders, NEW source \in Orders, Merge(target, source)
  PROVE  TypeOK' /\ Moved
<1> TypeOK  BY DEF IInv
<1>1. /\ status' \in [Orders -> Statuses]
      /\ \A p \in Orders : status'[p] = "none" => status[p] = "none"
  BY TransitionTypes DEF Merge, Transitions
<1>2. /\ rows' = [rows EXCEPT ![target] = rows[target] \cup rows[source]]
      /\ punched' = punched \cup rows[target] \cup rows[source]
      /\ UNCHANGED billed /\ status[target] # "none"
  BY DEF Merge, WriteItems, Editable, billVars
<1>3. /\ version' \in [Orders -> Nat]
      /\ \A o \in Orders : version[o] <= version'[o]
      /\ version[target] < version'[target]
  <2>1. Bump({target, source})
    BY DEF Merge
  <2> QED  BY <2>1, BumpMoves
<1>4. Moved
  <2>1. target # source /\ status'[target] = status[target]
    BY TransitionTypes DEF Merge, Transitions
  <2> QED  BY <1>1, <1>2, <1>3, <2>1 DEF TypeOK, Moved
<1>5. TypeOK'
  BY <1>1, <1>2, <1>3 DEF Merge, TypeOK, billVars, termVars
<1> QED  BY <1>4, <1>5

LEMMA SettleKeeps ==
  ASSUME IInv, NEW o \in Orders, Settle(o)
  PROVE  TypeOK' /\ Moved
<1> TypeOK  BY DEF IInv
<1>1. Transition(o, status[o], "close") /\ UNCHANGED <<version, itemVars, billed>>
  BY DEF Settle
<1>2. /\ status' \in [Orders -> Statuses]
      /\ \A p \in Orders : status'[p] = "none" => status[p] = "none"
  BY <1>1, TransitionTypes DEF Transitions
<1>4. Moved
  BY <1>1, <1>2 DEF TypeOK, Moved, itemVars
<1>3. TypeOK'
  BY <1>2 DEF Settle, TypeOK, itemVars, kitchenVars, termVars
<1> QED  BY <1>3, <1>4

----------------------------------------------------------------------------
(* The steps of a terminal that change nothing but what it knows.          *)
Shared == <<status, version, itemVars, kitchenVars, billVars>>

LEMMA ReadsOnly ==
  ASSUME IInv, NEW t \in Terminals, LocalTypes', Terminal(t)', UNCHANGED Shared,
         \A s \in Terminals \ {t} : pc'[s] = pc[s] /\ work'[s] = work[s] /\ seen'[s] = seen[s]
  PROVE  IInv'
<1> TypeOK  BY DEF IInv
<1>1. TypeOK'
  BY DEF TypeOK, LocalTypes, Local, Shared, itemVars, kitchenVars, billVars
<1>2. Moved
  BY StillMoves DEF Shared
<1> QED  BY <1>1, <1>2, OfOneTerminal

LEMMA OpenOrderKeeps ==
  ASSUME IInv, NEW t \in Terminals, NEW o \in Orders, OpenOrder(t, o)
  PROVE  IInv'
<1> DEFINE what == [Nothing EXCEPT !.version = version[o]]
<1> TypeOK  BY DEF IInv
<1>1. what \in Local /\ what.version = version[o]
  BY DEF TypeOK, Nothing, Local, Statuses
<1>2. Begin(t, "reading", o, what) /\ UNCHANGED Shared
  BY DEF OpenOrder, Shared
<1> HIDE DEF what
<1>3. /\ LocalTypes' /\ pc'[t] = "reading" /\ work'[t] = o /\ seen'[t] = what
      /\ \A s \in Terminals \ {t} : pc'[s] = pc[s] /\ work'[s] = work[s] /\ seen'[s] = seen[s]
  BY <1>1, <1>2, Begins DEF Steps
<1>4. Terminal(t)'
  BY <1>1, <1>2, <1>3 DEF Terminal, Shared, TypeOK, OpenOrder
<1> QED  BY <1>2, <1>3, <1>4, ReadsOnly

LEMMA OpenItemsKeeps ==
  ASSUME IInv, NEW t \in Terminals, OpenItems(t)
  PROVE  IInv'
<1> DEFINE what == [seen[t] EXCEPT !.units = rows[work[t]]]
<1> TypeOK /\ Terminal(t)  BY DEF IInv
<1>1. pc[t] = "reading" /\ work[t] \in Orders
  BY DEF OpenItems, Proceed, Terminal
<1>2. what \in Local /\ what.version = seen[t].version /\ what.units = rows[work[t]]
  BY <1>1 DEF TypeOK, Local
<1>3. Proceed(t, "reading", "open", what) /\ UNCHANGED Shared
  BY DEF OpenItems, Shared
<1> HIDE DEF what
<1>4. /\ LocalTypes' /\ pc'[t] = "open" /\ work'[t] = work[t] /\ seen'[t] = what
      /\ \A s \in Terminals \ {t} : pc'[s] = pc[s] /\ work'[s] = work[s] /\ seen'[s] = seen[s]
  <2>1. "open" \in Steps
    BY DEF Steps
  <2> QED  BY <1>2, <1>3, <2>1, Proceeds
<1>5. Terminal(t)'
  BY <1>1, <1>2, <1>3, <1>4 DEF Terminal, Shared, itemVars
<1> QED  BY <1>3, <1>4, <1>5, ReadsOnly

(* The back office looks at the order: it can be edited now.               *)
LEMMA RewriteReadKeeps ==
  ASSUME IInv, NEW t \in Terminals, RewriteRead(t)
  PROVE  IInv'
<1> DEFINE what == [Nothing EXCEPT !.units = seen[t].units \cup rows[work[t]]]
<1> TypeOK /\ Terminal(t)  BY DEF IInv
<1>1. work[t] \in Orders /\ status[work[t]] # "none"
  BY DEF RewriteRead, Proceed, Terminal
<1>2. what \in Local
  BY <1>1 DEF TypeOK, Local, Nothing, Statuses
<1>3. Proceed(t, "open", "rewrite", what) /\ UNCHANGED Shared
  BY DEF RewriteRead, Shared
<1> HIDE DEF what
<1>4. /\ LocalTypes' /\ pc'[t] = "rewrite" /\ work'[t] = work[t]
      /\ \A s \in Terminals \ {t} : pc'[s] = pc[s] /\ work'[s] = work[s] /\ seen'[s] = seen[s]
  BY <1>2, <1>3, Proceeds DEF Steps
<1>5. Terminal(t)'
  BY <1>1, <1>3, <1>4 DEF Terminal, Shared
<1> QED  BY <1>3, <1>4, <1>5, ReadsOnly

LEMMA StartFireKeeps ==
  ASSUME IInv, NEW t \in Terminals, NEW o \in Orders, StartFire(t, o)
  PROVE  IInv'
<1> TypeOK  BY DEF IInv
<1>1. Begin(t, "fire", o, Nothing) /\ UNCHANGED Shared
  BY DEF StartFire, Shared
<1>2. /\ LocalTypes' /\ pc'[t] = "fire" /\ work'[t] = o
      /\ \A s \in Terminals \ {t} : pc'[s] = pc[s] /\ work'[s] = work[s] /\ seen'[s] = seen[s]
  BY <1>1, Begins, NothingIsLocal DEF Steps
<1>3. Terminal(t)'
  BY <1>1, <1>2 DEF Terminal, Shared, StartFire
<1> QED  BY <1>1, <1>2, <1>3, ReadsOnly

LEMMA FireReadKeeps ==
  ASSUME IInv, NEW t \in Terminals, FireRead(t)
  PROVE  IInv'
<1> DEFINE what == [Nothing EXCEPT !.status = status[work[t]]]
<1> TypeOK /\ Terminal(t)  BY DEF IInv
<1>1. pc[t] = "fire" /\ work[t] \in Orders /\ status[work[t]] # "none"
  BY DEF FireRead, Proceed, Terminal
<1>2. what \in Local
  BY <1>1 DEF TypeOK, Local, Nothing
<1>3. Proceed(t, "fire", "tickets", what) /\ UNCHANGED Shared
  BY DEF FireRead, Shared
<1> HIDE DEF what
<1>4. /\ LocalTypes' /\ pc'[t] = "tickets" /\ work'[t] = work[t]
      /\ \A s \in Terminals \ {t} : pc'[s] = pc[s] /\ work'[s] = work[s] /\ seen'[s] = seen[s]
  BY <1>2, <1>3, Proceeds DEF Steps
<1>5. Terminal(t)'
  BY <1>1, <1>3, <1>4 DEF Terminal, Shared
<1> QED  BY <1>3, <1>4, <1>5, ReadsOnly

LEMMA BillReadKeeps ==
  ASSUME IInv, NEW t \in Terminals, NEW o \in Orders, BillRead(t, o)
  PROVE  IInv'
<1> DEFINE what == [Nothing EXCEPT !.status = status[o], !.version = version[o]]
<1> TypeOK  BY DEF IInv
<1>1. what \in Local /\ what.version = version[o]
  BY DEF TypeOK, Nothing, Local
<1>2. Begin(t, "billing", o, what) /\ UNCHANGED Shared
  BY DEF BillRead, Shared
<1> HIDE DEF what
<1>3. /\ LocalTypes' /\ pc'[t] = "billing" /\ work'[t] = o /\ seen'[t] = what
      /\ \A s \in Terminals \ {t} : pc'[s] = pc[s] /\ work'[s] = work[s] /\ seen'[s] = seen[s]
  BY <1>1, <1>2, Begins DEF Steps
<1>4. Terminal(t)'
  BY <1>1, <1>2, <1>3 DEF Terminal, Shared, TypeOK, BillRead
<1> QED  BY <1>2, <1>3, <1>4, ReadsOnly

LEMMA BillItemsKeeps ==
  ASSUME IInv, NEW t \in Terminals, BillItems(t)
  PROVE  IInv'
<1> DEFINE what == [seen[t] EXCEPT !.units = rows[work[t]]]
<1> TypeOK /\ Terminal(t)  BY DEF IInv
<1>1. pc[t] = "billing" /\ work[t] \in Orders /\ rows[work[t]] # {}
  BY DEF BillItems, Proceed, Terminal
<1>2. what \in Local /\ what.version = seen[t].version /\ what.units = rows[work[t]]
  BY <1>1 DEF TypeOK, Local
<1>3. Proceed(t, "billing", "bill", what) /\ UNCHANGED Shared
  BY DEF BillItems, Shared
<1> HIDE DEF what
<1>4. /\ LocalTypes' /\ pc'[t] = "bill" /\ work'[t] = work[t] /\ seen'[t] = what
      /\ \A s \in Terminals \ {t} : pc'[s] = pc[s] /\ work'[s] = work[s] /\ seen'[s] = seen[s]
  <2>1. "bill" \in Steps
    BY DEF Steps
  <2> QED  BY <1>2, <1>3, <2>1, Proceeds
<1>5. Terminal(t)'
  BY <1>1, <1>2, <1>3, <1>4 DEF Terminal, Shared, itemVars
<1> QED  BY <1>3, <1>4, <1>5, ReadsOnly

LEMMA GiveUpKeeps ==
  ASSUME IInv, NEW t \in Terminals, GiveUp(t)
  PROVE  IInv'
<1> TypeOK  BY DEF IInv
<1>1. Finish(t, pc[t]) /\ UNCHANGED Shared
  BY DEF GiveUp, Shared
<1>2. /\ LocalTypes' /\ pc'[t] = "idle"
      /\ \A s \in Terminals \ {t} : pc'[s] = pc[s] /\ work'[s] = work[s] /\ seen'[s] = seen[s]
  BY <1>1, Finishes
<1>3. Terminal(t)'
  BY <1>2 DEF Terminal
<1> QED  BY <1>1, <1>2, <1>3, ReadsOnly

----------------------------------------------------------------------------
(* The steps of a terminal that write.                                     *)
LEMMA WriteMoves ==
  ASSUME IInv, NEW o \in Orders, Editable(o), NEW cart \in SUBSET Units, WriteItems(o, cart),
         Bump({o}), UNCHANGED <<status, kitchenVars, billVars>>, LocalTypes'
  PROVE  TypeOK' /\ Moved
<1> TypeOK  BY DEF IInv
<1>1. /\ rows' = [rows EXCEPT ![o] = cart] /\ punched' = punched \cup cart
      /\ UNCHANGED billed /\ status[o] # "none"
  BY DEF WriteItems, Editable, billVars
<1>2. Moved
  BY <1>1, BumpMoves DEF TypeOK, Moved
<1>3. TypeOK'
  BY <1>1, BumpMoves DEF TypeOK, LocalTypes, Local, kitchenVars, billVars
<1> QED  BY <1>2, <1>3

LEMMA SaveKeeps ==
  ASSUME IInv, NEW t \in Terminals, Save(t)
  PROVE  IInv'
<1> TypeOK /\ Terminal(t)  BY DEF IInv
<1>1. /\ work[t] \in Orders /\ Editable(work[t]) /\ Bump({work[t]})
      /\ UNCHANGED <<status, kitchenVars, billVars>>
  BY DEF Save, Proceed, Terminal
<1>2. /\ LocalTypes' /\ pc'[t] = "fire" /\ work'[t] = work[t]
      /\ \A s \in Terminals \ {t} : pc'[s] = pc[s] /\ work'[s] = work[s] /\ seen'[s] = seen[s]
  BY Proceeds, NothingIsLocal DEF Save, Steps
<1>3. PICK cart \in SUBSET Units : WriteItems(work[t], cart)
  <2>1. seen[t].units \subseteq Units
    BY DEF TypeOK
  <2> QED  BY <2>1 DEF Save
<1>4. TypeOK' /\ Moved
  BY <1>1, <1>2, <1>3, WriteMoves
<1>5. Terminal(t)'
  BY <1>1, <1>2 DEF Terminal, Editable
<1> QED  BY <1>2, <1>4, <1>5, OfOneTerminal

LEMMA AddItemsKeeps ==
  ASSUME IInv, NEW t \in Terminals, NEW o \in Orders, AddItems(t, o)
  PROVE  IInv'
<1> TypeOK  BY DEF IInv
<1>1. Editable(o) /\ Bump({o}) /\ UNCHANGED <<status, kitchenVars, billVars>>
  BY DEF AddItems
<1>2. /\ LocalTypes' /\ pc'[t] = "fire" /\ work'[t] = o
      /\ \A s \in Terminals \ {t} : pc'[s] = pc[s] /\ work'[s] = work[s] /\ seen'[s] = seen[s]
  BY Begins, NothingIsLocal DEF AddItems, Steps
<1>3. PICK cart \in SUBSET Units : WriteItems(o, cart)
  <2>1. rows[o] \subseteq Units
    BY DEF TypeOK
  <2>2. PICK lines \in SUBSET (Units \ punched) \ {{}} : WriteItems(o, rows[o] \cup lines)
    BY DEF AddItems
  <2>3. rows[o] \cup lines \in SUBSET Units
    BY <2>1
  <2> QED  BY <2>2, <2>3
<1>4. TypeOK' /\ Moved
  BY <1>1, <1>2, <1>3, WriteMoves
<1>5. Terminal(t)'
  BY <1>1, <1>2 DEF Terminal, Editable
<1> QED  BY <1>2, <1>4, <1>5, OfOneTerminal

(* The back office writes, whatever the order is by now.                   *)
LEMMA RewriteCommitKeeps ==
  ASSUME IInv, NEW t \in Terminals, RewriteCommit(t)
  PROVE  IInv'
<1> DEFINE o == work[t]
<1> TypeOK /\ Terminal(t)  BY DEF IInv
<1>1. o \in Orders /\ status[o] # "none" /\ Bump({o})
  BY DEF RewriteCommit, Finish, Terminal
<1>2. /\ LocalTypes' /\ pc'[t] = "idle"
      /\ \A s \in Terminals \ {t} : pc'[s] = pc[s] /\ work'[s] = work[s] /\ seen'[s] = seen[s]
  BY Finishes DEF RewriteCommit
<1>3. PICK lines \in SUBSET Units :
        /\ rows' = [rows EXCEPT ![o] = lines]
        /\ punched' \subseteq Units /\ copied' \subseteq Units /\ sent' \subseteq sent
  <2>1. PICK cart \in SUBSET (seen[t].units \cup rows[o] \cup (Units \ punched)) :
             \E late \in SUBSET (rows[o] \ (seen[t].units \cup cart)) :
               /\ rows' = [rows EXCEPT ![o] = late \cup cart]
               /\ punched' = punched \cup cart
               /\ sent' = {s \in sent : s[1] = o => s[2] \in late}
               /\ copied' = copied \cup {u \in cart : cooked[u] > 0}
    BY DEF RewriteCommit
  <2>2. PICK late \in SUBSET rows[o] : rows' = [rows EXCEPT ![o] = late \cup cart]
    BY <2>1
  <2>3. cart \subseteq Units /\ rows[o] \subseteq Units
    BY <1>1, <2>1 DEF TypeOK
  <2>4. late \cup cart \in SUBSET Units
    BY <2>2, <2>3
  <2>5. punched' \subseteq Units /\ copied' \subseteq Units /\ sent' \subseteq sent
    BY <2>1, <2>3 DEF TypeOK
  <2> QED  BY <2>2, <2>4, <2>5
<1>4. /\ UNCHANGED <<status, cooked, billed, bill, settled>>
      /\ rewritten' = rewritten \cup ({o} \cap billed)
  BY DEF RewriteCommit
<1>5. Moved
  BY <1>1, <1>3, <1>4, BumpMoves DEF TypeOK, Moved
<1>6. TypeOK'
  BY <1>1, <1>2, <1>3, <1>4, BumpMoves DEF TypeOK, LocalTypes, Local
<1>7. Terminal(t)'
  BY <1>2 DEF Terminal
<1> QED  BY <1>2, <1>5, <1>6, <1>7, OfOneTerminal

(* Tickets: the fire ends, or goes on to advance the order.                *)
LEMMA FireTicketsLocal ==
  ASSUME IInv, NEW t \in Terminals, NEW some, AfterTickets(t, some)
  PROVE  /\ LocalTypes' /\ pc[t] = "tickets" /\ work[t] \in Orders /\ status[work[t]] # "none"
         /\ pc'[t] \in {"idle", "advance"} /\ (pc'[t] = "advance" => work'[t] = work[t])
         /\ \A s \in Terminals \ {t} : pc'[s] = pc[s] /\ work'[s] = work[s] /\ seen'[s] = seen[s]
<1> TypeOK /\ Terminal(t)  BY DEF IInv
<1>1. seen[t] \in Local
  BY DEF TypeOK, Local
<1>2. CASE Proceed(t, "tickets", "advance", seen[t])
  <2>1. pc[t] = "tickets" /\ work[t] \in Orders /\ status[work[t]] # "none"
    BY <1>2 DEF Proceed, Terminal
  <2> QED  BY <1>1, <1>2, <2>1, Proceeds DEF Steps
<1>3. CASE Finish(t, "tickets")
  <2>1. pc[t] = "tickets" /\ work[t] \in Orders /\ status[work[t]] # "none"
    BY <1>3 DEF Finish, Terminal
  <2> QED  BY <1>3, <2>1, Finishes
<1> QED  BY <1>2, <1>3 DEF AfterTickets

LEMMA FireTicketsKeeps ==
  ASSUME IInv, NEW t \in Terminals, FireTickets(t)
  PROVE  IInv'
<1> TypeOK  BY DEF IInv
<1>1. PICK some \in SUBSET Unsent(work[t]) :
        /\ AfterTickets(t, some)
        /\ sent' = sent \cup ({work[t]} \X some)
        /\ cooked' = [u \in Units |-> IF u \in some THEN cooked[u] + 1 ELSE cooked[u]]
  BY DEF FireTickets
<1>2. /\ LocalTypes' /\ pc[t] = "tickets" /\ work[t] \in Orders /\ status[work[t]] # "none"
      /\ pc'[t] \in {"idle", "advance"} /\ (pc'[t] = "advance" => work'[t] = work[t])
      /\ \A s \in Terminals \ {t} : pc'[s] = pc[s] /\ work'[s] = work[s] /\ seen'[s] = seen[s]
  BY <1>1, FireTicketsLocal
<1>3. UNCHANGED <<status, version, itemVars, copied, billVars>>
  BY DEF FireTickets
<1>4. TypeOK'
  <2>1. some \subseteq Units
    BY <1>2 DEF TypeOK, Unsent
  <2>2. sent' \subseteq Orders \X Units
    BY <1>1, <1>2, <2>1 DEF TypeOK
  <2>3. cooked' \in [Units -> Nat]
    BY <1>1 DEF TypeOK
  <2> QED  BY <1>2, <1>3, <2>2, <2>3 DEF TypeOK, LocalTypes, Local, itemVars, billVars
<1>5. Moved
  BY <1>3, StillMoves
<1>6. Terminal(t)'
  BY <1>2, <1>3 DEF Terminal
<1> QED  BY <1>2, <1>4, <1>5, <1>6, OfOneTerminal

LEMMA FireAdvanceKeeps ==
  ASSUME IInv, NEW t \in Terminals, FireAdvance(t)
  PROVE  IInv'
<1> TypeOK /\ Terminal(t)  BY DEF IInv
<1>1. work[t] \in Orders
  BY DEF FireAdvance, Finish, Terminal
<1>2. /\ LocalTypes' /\ pc'[t] = "idle"
      /\ \A s \in Terminals \ {t} : pc'[s] = pc[s] /\ work'[s] = work[s] /\ seen'[s] = seen[s]
  BY Finishes DEF FireAdvance
<1>3. Transition(work[t], seen[t].status, "start_fulfillment")
      /\ UNCHANGED <<version, itemVars, kitchenVars, billVars>>
  BY DEF FireAdvance
<1>4. Moved /\ status' \in [Orders -> Statuses]
  BY <1>1, <1>3, TransitionTypes, StatusChanges DEF Transitions
<1>5. TypeOK'
  BY <1>2, <1>3, <1>4 DEF TypeOK, LocalTypes, Local, itemVars, kitchenVars, billVars
<1>6. Terminal(t)'
  BY <1>2 DEF Terminal
<1> QED  BY <1>2, <1>4, <1>5, <1>6, OfOneTerminal

LEMMA BillCommitKeeps ==
  ASSUME IInv, NEW t \in Terminals, BillCommit(t)
  PROVE  IInv'
<1> DEFINE o == work[t]
<1> TypeOK /\ Terminal(t)  BY DEF IInv
<1>1. o \in Orders
  BY DEF BillCommit, Finish, Terminal
<1>2. /\ LocalTypes' /\ pc'[t] = "idle"
      /\ \A s \in Terminals \ {t} : pc'[s] = pc[s] /\ work'[s] = work[s] /\ seen'[s] = seen[s]
  BY Finishes DEF BillCommit
<1>3. /\ Transition(o, seen[t].status, "complete")
      /\ billed' = billed \cup {o} /\ bill' = [bill EXCEPT ![o] = seen[t].units]
      /\ UNCHANGED <<version, itemVars, kitchenVars, settled, rewritten>>
  BY DEF BillCommit
<1>4. /\ status' \in [Orders -> Statuses] /\ status'[o] # "none"
      /\ \A p \in Orders \ {o} : status'[p] = status[p]
  BY <1>1, <1>3, TransitionTypes DEF Transitions
<1>5. Moved
  BY <1>3, <1>4 DEF TypeOK, Moved, itemVars
<1>6. TypeOK'
  BY <1>1, <1>2, <1>3, <1>4 DEF TypeOK, LocalTypes, Local, itemVars, kitchenVars
<1>7. Terminal(t)'
  BY <1>2 DEF Terminal
<1> QED  BY <1>2, <1>5, <1>6, <1>7, OfOneTerminal

----------------------------------------------------------------------------
LEMMA Initially == Init => IInv
  BY DEF Init, IInv, TypeOK, Uncreated, Terminal, Nothing, Statuses, Steps

LEMMA Preserved == IInv /\ [Next]_vars => IInv'
<1> SUFFICES ASSUME IInv, [Next]_vars  PROVE IInv'
  OBVIOUS
<1> TypeOK  BY DEF IInv
<1>1. ASSUME NEW o \in Orders, Create(o)  PROVE IInv'
  <2>1. TypeOK' /\ Moved
    BY <1>1, CreateKeeps
  <2> QED  BY <1>1, <2>1, OfNoTerminal DEF Create
<1>2. ASSUME NEW o \in Orders, Cancel(o)  PROVE IInv'
  <2>1. TypeOK' /\ Moved
    BY <1>2, StatusMoves DEF Cancel, Transitions
  <2> QED  BY <1>2, <2>1, OfNoTerminal DEF Cancel
<1>3. ASSUME NEW o \in Orders, Reopen(o)  PROVE IInv'
  <2>1. TypeOK' /\ Moved
    BY <1>3, StatusMoves DEF Reopen, Transitions
  <2> QED  BY <1>3, <2>1, OfNoTerminal DEF Reopen
<1>4. ASSUME NEW o \in Orders, Settle(o)  PROVE IInv'
  <2>1. TypeOK' /\ Moved
    BY <1>4, SettleKeeps
  <2> QED  BY <1>4, <2>1, OfNoTerminal DEF Settle
<1>5. ASSUME NEW o \in Orders, NEW u \in Units, VoidItem(o, u)  PROVE IInv'
  <2>1. TypeOK' /\ Moved
    BY <1>5, VoidItemKeeps
  <2> QED  BY <1>5, <2>1, OfNoTerminal DEF VoidItem
<1>6. ASSUME NEW target \in Orders, NEW source \in Orders, Merge(target, source)  PROVE IInv'
  <2>1. TypeOK' /\ Moved
    BY <1>6, MergeKeeps
  <2> QED  BY <1>6, <2>1, OfNoTerminal DEF Merge
<1>7. ASSUME NEW t \in Terminals, NEW o \in Orders,
             OpenOrder(t, o) \/ AddItems(t, o) \/ StartFire(t, o) \/ BillRead(t, o)
      PROVE  IInv'
  BY <1>7, OpenOrderKeeps, AddItemsKeeps, StartFireKeeps, BillReadKeeps
<1>8. ASSUME NEW t \in Terminals,
             OpenItems(t) \/ Save(t) \/ FireRead(t) \/ FireTickets(t) \/ FireAdvance(t)
      PROVE  IInv'
  BY <1>8, OpenItemsKeeps, SaveKeeps, FireReadKeeps, FireTicketsKeeps, FireAdvanceKeeps
<1>9. ASSUME NEW t \in Terminals,
             RewriteRead(t) \/ RewriteCommit(t) \/ BillItems(t) \/ BillCommit(t) \/ GiveUp(t)
      PROVE  IInv'
  BY <1>9, RewriteReadKeeps, RewriteCommitKeeps, BillItemsKeeps, BillCommitKeeps, GiveUpKeeps
<1>10. CASE UNCHANGED vars
  <2>1. Moved
    BY <1>10, StillMoves DEF vars
  <2>2. TypeOK'
    BY <1>10 DEF vars, itemVars, kitchenVars, billVars, termVars, TypeOK
  <2> QED  BY <1>10, <2>1, <2>2, OfNoTerminal DEF vars
<1> QED  BY <1>1, <1>2, <1>3, <1>4, <1>5, <1>6, <1>7, <1>8, <1>9, <1>10 DEF Next

(* Whatever the terminals do, the variables keep their types.              *)
THEOREM OrderTypeCorrect == Spec => []TypeOK
<1>1. IInv => TypeOK
  BY DEF IInv
<1> QED  BY <1>1, Initially, Preserved, PTL DEF Spec

(* A version that is still current vouches for the items read after it, so *)
(* saving a cart drops nothing that was added since the screen was opened  *)
(* (pos-orders.service.ts:1477-1482).                                      *)
THEOREM ScreensAreCurrent == Spec => []ScreenIsCurrent
<1>1. IInv => ScreenIsCurrent
  BY DEF IInv, Terminal, ScreenIsCurrent
<1> QED  BY <1>1, Initially, Preserved, PTL DEF Spec

----------------------------------------------------------------------------
(* The bills.                                                              *)
BInv == IInv /\ BillMatchesOrder

(* The bills that exist stay right while their orders keep their rows.     *)
LEMMA BillsStand ==
  ASSUME BInv, UNCHANGED <<billed, bill>>, rewritten \subseteq rewritten',
         \A o \in billed \ rewritten' : rows'[o] = rows[o]
  PROVE  BillMatchesOrder'
  BY DEF BInv, BillMatchesOrder

LEMMA SameBills ==
  ASSUME BInv, UNCHANGED <<itemVars, billed, bill, rewritten>>
  PROVE  BillMatchesOrder'
  BY BillsStand DEF itemVars

(* A write to an order that has no bill.                                   *)
LEMMA UnbilledWrite ==
  ASSUME BInv, NEW o \in Orders, o \notin billed, NEW cart, rows' = [rows EXCEPT ![o] = cart],
         UNCHANGED billVars
  PROVE  BillMatchesOrder'
<1>1. \A p \in billed : rows'[p] = rows[p]
  BY DEF BInv, IInv, TypeOK
<1> QED  BY <1>1, BillsStand DEF billVars

(* The bill takes what was read before the lock, and it is right because   *)
(* the version has not moved since.                                        *)
LEMMA BillIsRight ==
  ASSUME BInv, NEW t \in Terminals, BillCommit(t)
  PROVE  BillMatchesOrder'
<1> DEFINE o == work[t]
<1> IInv /\ TypeOK /\ Terminal(t)  BY DEF BInv, IInv
<1>1. o \in Orders /\ seen[t].units = rows[o] /\ rows[o] # {}
  BY DEF BillCommit, Finish, Terminal
<1>2. /\ billed' = billed \cup {o} /\ bill' = [bill EXCEPT ![o] = seen[t].units]
      /\ rows' = rows /\ rewritten' = rewritten
  BY DEF BillCommit, itemVars
<1> QED  BY <1>1, <1>2 DEF BInv, BillMatchesOrder, TypeOK

LEMMA BillsPreserved ==
  BInv /\ [Next]_vars => BInv'
<1> SUFFICES ASSUME BInv, [Next]_vars  PROVE BillMatchesOrder'
  BY Preserved DEF BInv
<1> IInv /\ TypeOK  BY DEF BInv, IInv
<1>1. ASSUME NEW o \in Orders, Create(o)  PROVE BillMatchesOrder'
  <2>1. o \notin billed /\ UNCHANGED billVars
    BY <1>1 DEF IInv, Uncreated, Create
  <2>2. CASE UNCHANGED itemVars
    BY <2>1, <2>2, SameBills DEF billVars
  <2>3. ASSUME NEW lines \in SUBSET (Units \ punched), WriteItems(o, lines)
        PROVE  BillMatchesOrder'
    BY <2>1, <2>3, UnbilledWrite DEF WriteItems
  <2> QED  BY <1>1, <2>2, <2>3 DEF Create
<1>2. ASSUME NEW t \in Terminals, Save(t)  PROVE BillMatchesOrder'
  <2>1. work[t] \in Orders /\ work[t] \notin billed /\ UNCHANGED billVars
    BY <1>2 DEF IInv, Terminal, Save, Proceed, Editable
  <2>2. PICK cart : rows' = [rows EXCEPT ![work[t]] = cart]
    BY <1>2 DEF Save, WriteItems
  <2> QED  BY <2>1, <2>2, UnbilledWrite
<1>3. ASSUME NEW t \in Terminals, NEW o \in Orders, AddItems(t, o)  PROVE BillMatchesOrder'
  <2>1. o \notin billed /\ UNCHANGED billVars
    BY <1>3 DEF AddItems, Editable
  <2>2. PICK cart : rows' = [rows EXCEPT ![o] = cart]
    BY <1>3 DEF AddItems, WriteItems
  <2> QED  BY <2>1, <2>2, UnbilledWrite
<1>4. ASSUME NEW o \in Orders, NEW u \in Units, VoidItem(o, u)  PROVE BillMatchesOrder'
  <2>1. o \notin billed /\ rows' = [rows EXCEPT ![o] = rows[o] \ {u}] /\ UNCHANGED billVars
    BY <1>4 DEF VoidItem, Editable
  <2> QED  BY <2>1, UnbilledWrite
<1>5. ASSUME NEW target \in Orders, NEW source \in Orders, Merge(target, source)
      PROVE  BillMatchesOrder'
  <2>1. target \notin billed /\ UNCHANGED billVars
    BY <1>5 DEF Merge, Editable
  <2>2. rows' = [rows EXCEPT ![target] = rows[target] \cup rows[source]]
    BY <1>5 DEF Merge, WriteItems
  <2> QED  BY <2>1, <2>2, UnbilledWrite
<1>6. ASSUME NEW t \in Terminals, RewriteCommit(t)  PROVE BillMatchesOrder'
  <2>1. /\ rewritten' = rewritten \cup ({work[t]} \cap billed)
        /\ UNCHANGED <<billed, bill>>
    BY <1>6 DEF RewriteCommit
  <2>2. PICK lines : rows' = [rows EXCEPT ![work[t]] = lines]
    BY <1>6 DEF RewriteCommit
  <2>3. \A o \in billed \ rewritten' : rows'[o] = rows[o]
    BY <2>1, <2>2 DEF TypeOK
  <2> QED  BY <2>1, <2>3, BillsStand
<1>7. ASSUME NEW o \in Orders, Cancel(o) \/ Reopen(o) \/ Settle(o)  PROVE BillMatchesOrder'
  BY <1>7, SameBills DEF Cancel, Reopen, Settle, billVars
<1>8. ASSUME NEW t \in Terminals, NEW o \in Orders,
             OpenOrder(t, o) \/ StartFire(t, o) \/ BillRead(t, o)
      PROVE  BillMatchesOrder'
  BY <1>8, SameBills DEF OpenOrder, StartFire, BillRead, billVars
<1>9. ASSUME NEW t \in Terminals,
             \/ OpenItems(t) \/ RewriteRead(t) \/ BillItems(t) \/ GiveUp(t)
             \/ FireRead(t) \/ FireTickets(t) \/ FireAdvance(t)
      PROVE  BillMatchesOrder'
  BY <1>9, SameBills
     DEF OpenItems, RewriteRead, FireRead, FireTickets, FireAdvance, BillItems, GiveUp, billVars
<1>10. CASE UNCHANGED vars
  BY <1>10, SameBills DEF vars, billVars
<1> QED  BY <1>1, <1>2, <1>3, <1>4, <1>5, <1>6, <1>7, <1>8, <1>9, <1>10, BillIsRight DEF Next

(* A bill has the items of its order, then and later: the check of the     *)
(* version under the lock is enough against the terminals and against the  *)
(* back office (pos-invoice.service.ts:348-350), and what the back office  *)
(* writes to an order that has its bill by then is the one exception       *)
(* (orders.service.ts:260-288).                                            *)
THEOREM BillsAreRight == Spec => []BillMatchesOrder
<1>1. Init => BInv
  <2>1. Init => BillMatchesOrder
    BY DEF Init, BillMatchesOrder
  <2> QED  BY <2>1, Initially DEF BInv
<1>2. BInv => BillMatchesOrder
  BY DEF BInv
<1> QED  BY <1>1, <1>2, BillsPreserved, PTL DEF Spec

----------------------------------------------------------------------------
(* The kitchen.                                                            *)
CInv == IInv /\ Kitchen /\ CookedOnce

(* What a step puts on a page is on that order, or was on a page of it.    *)
PagesHad ==
  \A t \in Terminals : pc'[t] \in Pages => \A u \in seen'[t].units : Has(work'[t], u)

LEMMA StillRead ==
  ASSUME NEW t \in Terminals, pc'[t] \notin Pages,
         \A s \in Terminals \ {t} : pc'[s] = pc[s] /\ work'[s] = work[s] /\ seen'[s] = seen[s]
  PROVE  PagesHad
  BY DEF PagesHad, Has

LEMMA PagesRead ==
  ASSUME IInv, [Next]_vars
  PROVE  PagesHad
<1> TypeOK  BY DEF IInv
<1>1. CASE UNCHANGED termVars
  BY <1>1 DEF PagesHad, Has, termVars
<1>2. ASSUME NEW t \in Terminals, NEW p, Finish(t, p)  PROVE PagesHad
  BY <1>2, StillRead, Finishes DEF Pages
<1>3. ASSUME NEW t \in Terminals, NEW o \in Orders, NEW p \in Steps \ Pages, NEW what, Begin(t, p, o, what)
      PROVE  PagesHad
  <2>1. /\ pc'[t] = p
        /\ \A s \in Terminals \ {t} : pc'[s] = pc[s] /\ work'[s] = work[s] /\ seen'[s] = seen[s]
    BY <1>3 DEF Begin, TypeOK
  <2> QED  BY <2>1, StillRead
<1>4. ASSUME NEW t \in Terminals, NEW p, NEW q \in Steps \ Pages, NEW what, Proceed(t, p, q, what)
      PROVE  PagesHad
  <2>1. /\ pc'[t] = q
        /\ \A s \in Terminals \ {t} : pc'[s] = pc[s] /\ work'[s] = work[s] /\ seen'[s] = seen[s]
    BY <1>4 DEF Proceed, TypeOK
  <2> QED  BY <2>1, StillRead
<1>5. ASSUME NEW t \in Terminals, NEW p, NEW q, NEW what, Proceed(t, p, q, what),
             \A u \in what.units : Has(work[t], u)
      PROVE  PagesHad
  <2>1. /\ work'[t] = work[t] /\ seen'[t] = what
        /\ \A s \in Terminals \ {t} : pc'[s] = pc[s] /\ work'[s] = work[s] /\ seen'[s] = seen[s]
    BY <1>5 DEF Proceed, TypeOK
  <2> QED  BY <1>5, <2>1 DEF PagesHad, Has
<1>6. ASSUME NEW t \in Terminals, OpenItems(t)  PROVE PagesHad
  <2> DEFINE what == [seen[t] EXCEPT !.units = rows[work[t]]]
  <2>1. what.units = rows[work[t]]
    BY DEF TypeOK
  <2>2. Proceed(t, "reading", "open", what)
    BY <1>6 DEF OpenItems
  <2> HIDE DEF what
  <2>3. \A u \in what.units : Has(work[t], u)
    BY <2>1 DEF Has
  <2> QED  BY <1>5, <2>2, <2>3
<1>7. ASSUME NEW t \in Terminals, RewriteRead(t)  PROVE PagesHad
  <2> DEFINE what == [Nothing EXCEPT !.units = seen[t].units \cup rows[work[t]]]
  <2>1. what.units = seen[t].units \cup rows[work[t]]
    BY DEF Nothing
  <2>2. Proceed(t, "open", "rewrite", what) /\ pc[t] = "open"
    BY <1>7 DEF RewriteRead, Proceed
  <2> HIDE DEF what
  <2>3. \A u \in what.units : Has(work[t], u)
    BY <2>1, <2>2 DEF Has, Pages
  <2> QED  BY <1>5, <2>2, <2>3
<1>8. /\ {"reading", "fire", "billing"} \subseteq Steps \ Pages
      /\ {"tickets", "advance", "bill"} \subseteq Steps \ Pages
  BY DEF Steps, Pages
<1>9. ASSUME NEW o \in Orders, Create(o) \/ Cancel(o) \/ Reopen(o) \/ Settle(o)  PROVE PagesHad
  BY <1>1, <1>9 DEF Create, Cancel, Reopen, Settle
<1>10. ASSUME NEW o \in Orders, NEW u \in Units, VoidItem(o, u)  PROVE PagesHad
  BY <1>1, <1>10 DEF VoidItem
<1>11. ASSUME NEW target \in Orders, NEW source \in Orders, Merge(target, source)  PROVE PagesHad
  BY <1>1, <1>11 DEF Merge
<1>12. ASSUME NEW t \in Terminals, NEW o \in Orders,
              OpenOrder(t, o) \/ AddItems(t, o) \/ StartFire(t, o) \/ BillRead(t, o)
       PROVE  PagesHad
  BY <1>3, <1>8, <1>12 DEF OpenOrder, AddItems, StartFire, BillRead
<1>13. ASSUME NEW t \in Terminals, Save(t) \/ FireRead(t) \/ BillItems(t)  PROVE PagesHad
  BY <1>4, <1>8, <1>13 DEF Save, FireRead, BillItems
<1>14. ASSUME NEW t \in Terminals, RewriteCommit(t) \/ FireAdvance(t) \/ BillCommit(t) \/ GiveUp(t)
       PROVE  PagesHad
  BY <1>2, <1>14 DEF RewriteCommit, FireAdvance, BillCommit, GiveUp
<1>15. ASSUME NEW t \in Terminals, FireTickets(t)  PROVE PagesHad
  BY <1>2, <1>4, <1>8, <1>15 DEF FireTickets, AfterTickets
<1>16. CASE UNCHANGED vars
  BY <1>1, <1>16 DEF vars
<1> QED  BY <1>6, <1>7, <1>9, <1>10, <1>11, <1>12, <1>13, <1>14, <1>15, <1>16 DEF Next

(* A unit comes to an order only by a write of its rows.                   *)
LEMMA HasGrows ==
  ASSUME PagesHad, NEW o, NEW u, Has(o, u)'
  PROVE  Has(o, u) \/ u \in rows'[o]
  BY DEF PagesHad, Has

(* Rows written to one order, of units that it has or that are new: none   *)
(* of them is on another order.                                            *)
LEMMA OneOwner ==
  ASSUME Kitchen, PagesHad, NEW o \in Orders, NEW cart, punched' = punched \cup cart,
         copied \subseteq copied',
         \A u \in rows'[o] : Has(o, u) \/ u \in cart \ punched,
         \A p \in Orders \ {o} : rows'[p] = rows[p]
  PROVE  /\ \A p \in Orders, u \in Units : Has(p, u)' => u \in punched'
         /\ \A u \in Units \ copied' : \A o1, o2 \in Orders : Has(o1, u)' /\ Has(o2, u)' => o1 = o2
<1>1. ASSUME NEW p \in Orders, NEW u \in Units, Has(p, u)'
      PROVE  Has(p, u) \/ (p = o /\ u \in cart \ punched)
  <2>1. CASE p = o
    BY <1>1, <2>1, HasGrows
  <2>2. CASE p # o
    <3>1. Has(p, u) \/ u \in rows[p]
      BY <1>1, <2>2, HasGrows
    <3> QED  BY <3>1 DEF Has
  <2> QED  BY <2>1, <2>2
<1>2. \A p \in Orders, u \in Units : Has(p, u)' => u \in punched'
  <2>1. \A p \in Orders, u \in Units : Has(p, u) => u \in punched
    BY DEF Kitchen
  <2> QED  BY <1>1, <2>1
<1>3. ASSUME NEW u \in Units \ copied, NEW o1 \in Orders, NEW o2 \in Orders, Has(o1, u)', Has(o2, u)'
      PROVE  o1 = o2
  <2>1. CASE u \in punched
    <3>1. Has(o1, u) /\ Has(o2, u)
      BY <1>1, <1>3, <2>1
    <3> QED  BY <3>1 DEF Kitchen
  <2>2. CASE u \notin punched
    <3>1. ~ Has(o1, u) /\ ~ Has(o2, u)
      BY <2>2 DEF Kitchen
    <3> QED  BY <1>1, <1>3, <3>1
  <2> QED  BY <2>1, <2>2
<1> QED  BY <1>2, <1>3

LEMMA RowsAreHad == \A o, u : u \in rows[o] => Has(o, u)
  BY DEF Has

LEMMA WriteKitchen ==
  ASSUME TypeOK, Kitchen, CookedOnce, PagesHad, NEW o \in Orders,
         NEW cart \in SUBSET (rows[o] \cup (Units \ punched)),
         WriteItems(o, cart), UNCHANGED kitchenVars
  PROVE  Kitchen' /\ CookedOnce'
<1>1. /\ rows' = [rows EXCEPT ![o] = cart] /\ punched' = punched \cup cart
      /\ \A u \in rows[o] \ cart : <<o, u>> \notin sent
      /\ sent' = sent /\ cooked' = cooked /\ copied' = copied
  BY DEF WriteItems, kitchenVars
<1>2. /\ rows'[o] = cart
      /\ \A p \in Orders \ {o} : rows'[p] = rows[p]
  BY <1>1 DEF TypeOK
<1>3. \A p \in Orders, u \in Units : <<p, u>> \in sent' => u \in rows'[p]
  BY <1>1, <1>2 DEF Kitchen
<1>4. /\ \A p \in Orders, u \in Units : Has(p, u)' => u \in punched'
      /\ \A u \in Units \ copied' : \A o1, o2 \in Orders : Has(o1, u)' /\ Has(o2, u)' => o1 = o2
  <2>1. \A u \in rows'[o] : Has(o, u) \/ u \in cart \ punched
    BY <1>2, RowsAreHad
  <2> QED  BY <1>1, <1>2, <2>1, OneOwner
<1>5. \A u \in Units \ punched' : cooked'[u] = 0
  BY <1>1 DEF Kitchen
<1>6. \A u \in Units \ copied', p \in Orders :
        u \in rows'[p] /\ <<p, u>> \notin sent' => cooked'[u] = 0
  <2> SUFFICES ASSUME NEW u \in Units \ copied, NEW p \in Orders,
                      u \in rows'[p], <<p, u>> \notin sent
               PROVE  cooked[u] = 0
    BY <1>1
  <2>1. CASE u \in punched
    <3>1. u \in rows[p]
      BY <1>2, <2>1
    <3> QED  BY <3>1 DEF Kitchen
  <2>2. CASE u \notin punched
    BY <2>2 DEF Kitchen
  <2> QED  BY <2>1, <2>2
<1>7. CookedOnce'
  BY <1>1 DEF CookedOnce
<1> QED  BY <1>3, <1>4, <1>5, <1>6, <1>7 DEF Kitchen

(* What loses its mark when the back office writes it anew, and has been   *)
(* on a ticket, is among the exceptions from then on.                      *)
LEMMA RewriteKitchen ==
  ASSUME TypeOK, Kitchen, CookedOnce, PagesHad, NEW t \in Terminals, work[t] \in Orders,
         RewriteCommit(t)
  PROVE  Kitchen' /\ CookedOnce'
<1> DEFINE o == work[t]
<1>1. PICK cart \in SUBSET (seen[t].units \cup rows[o] \cup (Units \ punched)) :
           \E late \in SUBSET (rows[o] \ (seen[t].units \cup cart)) :
             /\ rows' = [rows EXCEPT ![o] = late \cup cart]
             /\ punched' = punched \cup cart
             /\ sent' = {s \in sent : s[1] = o => s[2] \in late}
             /\ copied' = copied \cup {u \in cart : cooked[u] > 0}
  BY DEF RewriteCommit
<1>2. PICK late \in SUBSET (rows[o] \ (seen[t].units \cup cart)) :
             /\ rows' = [rows EXCEPT ![o] = late \cup cart]
             /\ punched' = punched \cup cart
             /\ sent' = {s \in sent : s[1] = o => s[2] \in late}
             /\ copied' = copied \cup {u \in cart : cooked[u] > 0}
  BY <1>1
<1>3. /\ rows'[o] = late \cup cart
      /\ \A p \in Orders \ {o} : rows'[p] = rows[p]
      /\ cooked' = cooked /\ copied \subseteq copied' /\ pc[t] = "rewrite"
  BY <1>2 DEF TypeOK, RewriteCommit, Finish
<1>4. \A p \in Orders, u \in Units : <<p, u>> \in sent' <=> <<p, u>> \in sent /\ (p = o => u \in late)
  BY <1>2
<1>5. \A p \in Orders, u \in Units : <<p, u>> \in sent' => u \in rows'[p]
  BY <1>3, <1>4 DEF Kitchen
<1>6. /\ \A p \in Orders, u \in Units : Has(p, u)' => u \in punched'
      /\ \A u \in Units \ copied' : \A o1, o2 \in Orders : Has(o1, u)' /\ Has(o2, u)' => o1 = o2
  <2>1. \A u \in rows'[o] : Has(o, u) \/ u \in cart \ punched
    BY <1>1, <1>3 DEF Has, Pages
  <2> QED  BY <1>2, <1>3, <2>1, OneOwner
<1>7. \A u \in Units \ punched' : cooked'[u] = 0
  BY <1>2, <1>3 DEF Kitchen
<1>8. \A u \in Units \ copied', p \in Orders :
        u \in rows'[p] /\ <<p, u>> \notin sent' => cooked'[u] = 0
  <2> SUFFICES ASSUME NEW u \in Units \ copied', NEW p \in Orders,
                      u \in rows'[p], <<p, u>> \notin sent'
               PROVE  cooked[u] = 0
    BY <1>3
  <2> u \notin copied
    BY <1>3
  <2>1. CASE p = o
    <3>1. CASE u \in cart
      BY <1>2, <3>1 DEF TypeOK
    <3>2. CASE u \in late
      <4>1. u \in rows[o] /\ <<o, u>> \notin sent
        BY <1>2, <1>4, <2>1, <3>2
      <4> QED  BY <4>1 DEF Kitchen
    <3> QED  BY <1>3, <2>1, <3>1, <3>2
  <2>2. CASE p # o
    <3>1. u \in rows[p] /\ <<p, u>> \notin sent
      BY <1>3, <1>4, <2>2
    <3> QED  BY <3>1 DEF Kitchen
  <2> QED  BY <2>1, <2>2
<1>9. CookedOnce'
  BY <1>3 DEF CookedOnce
<1> QED  BY <1>5, <1>6, <1>7, <1>8, <1>9 DEF Kitchen

(* A step that writes nothing, or only takes rows away.                    *)
LEMMA FewerRows ==
  ASSUME Kitchen, PagesHad, \A o \in Orders : rows'[o] \subseteq rows[o],
         punched' = punched, copied' = copied
  PROVE  /\ \A p \in Orders, u \in Units : Has(p, u)' => u \in punched'
         /\ \A u \in Units \ copied' : \A o1, o2 \in Orders : Has(o1, u)' /\ Has(o2, u)' => o1 = o2
<1>1. \A o \in Orders, u \in Units : Has(o, u)' => Has(o, u)
  BY HasGrows, RowsAreHad
<1>2. /\ \A p \in Orders, u \in Units : Has(p, u) => u \in punched
      /\ \A u \in Units \ copied : \A o1, o2 \in Orders : Has(o1, u) /\ Has(o2, u) => o1 = o2
  BY DEF Kitchen
<1> QED  BY <1>1, <1>2

LEMMA SameKitchen ==
  ASSUME Kitchen, CookedOnce, PagesHad, UNCHANGED <<itemVars, kitchenVars>>
  PROVE  Kitchen' /\ CookedOnce'
<1>1. /\ rows' = rows /\ punched' = punched /\ sent' = sent /\ cooked' = cooked
      /\ copied' = copied
  BY DEF itemVars, kitchenVars
<1>2. /\ \A p \in Orders, u \in Units : Has(p, u)' => u \in punched'
      /\ \A u \in Units \ copied' : \A o1, o2 \in Orders : Has(o1, u)' /\ Has(o2, u)' => o1 = o2
  BY <1>1, FewerRows
<1>3. /\ \A o \in Orders, u \in Units : <<o, u>> \in sent => u \in rows[o]
      /\ \A u \in Units \ punched : cooked[u] = 0
      /\ \A u \in Units \ copied, o \in Orders :
           u \in rows[o] /\ <<o, u>> \notin sent => cooked[u] = 0
  BY DEF Kitchen
<1>4. CookedOnce'
  BY <1>1 DEF CookedOnce
<1> QED  BY <1>1, <1>2, <1>3, <1>4 DEF Kitchen

LEMMA VoidKitchen ==
  ASSUME TypeOK, Kitchen, CookedOnce, PagesHad, NEW o \in Orders, NEW v \in Units, VoidItem(o, v)
  PROVE  Kitchen' /\ CookedOnce'
<1>1. /\ rows' = [rows EXCEPT ![o] = @ \ {v}] /\ sent' = sent \ {<<o, v>>}
      /\ punched' = punched /\ cooked' = cooked /\ copied' = copied
  BY DEF VoidItem
<1>2. /\ rows'[o] = rows[o] \ {v}
      /\ \A p \in Orders \ {o} : rows'[p] = rows[p]
  BY <1>1 DEF TypeOK
<1>3. \A p \in Orders : rows'[p] \subseteq rows[p]
  BY <1>2
<1>4. \A p \in Orders, u \in Units : <<p, u>> \in sent' <=> <<p, u>> \in sent /\ ~(p = o /\ u = v)
  BY <1>1
<1>5. \A p \in Orders, u \in Units : <<p, u>> \in sent' => u \in rows'[p]
  BY <1>2, <1>4 DEF Kitchen
<1>6. \A u \in Units \ copied', p \in Orders :
        u \in rows'[p] /\ <<p, u>> \notin sent' => cooked'[u] = 0
  BY <1>1, <1>2, <1>3, <1>4 DEF Kitchen
<1>7. /\ \A p \in Orders, u \in Units : Has(p, u)' => u \in punched'
      /\ \A u \in Units \ copied' : \A o1, o2 \in Orders : Has(o1, u)' /\ Has(o2, u)' => o1 = o2
  BY <1>1, <1>3, FewerRows
<1>8. \A u \in Units \ punched' : cooked'[u] = 0
  BY <1>1 DEF Kitchen
<1>9. CookedOnce'
  BY <1>1 DEF CookedOnce
<1> QED  BY <1>5, <1>6, <1>7, <1>8, <1>9 DEF Kitchen

LEMMA MergeKitchen ==
  ASSUME TypeOK, Kitchen, CookedOnce, PagesHad, NEW target \in Orders, NEW source \in Orders,
         Merge(target, source)
  PROVE  Kitchen' /\ CookedOnce'
<1>1. /\ rows' = [rows EXCEPT ![target] = rows[target] \cup rows[source]]
      /\ punched' = punched \cup (rows[target] \cup rows[source])
      /\ copied' = copied \cup rows[source] /\ sent' = sent /\ cooked' = cooked
  BY DEF Merge, WriteItems
<1>2. /\ rows'[target] = rows[target] \cup rows[source]
      /\ \A p \in Orders \ {target} : rows'[p] = rows[p]
  BY <1>1 DEF TypeOK
<1>3. \A p \in Orders, u \in Units \ copied' : u \in rows'[p] => u \in rows[p]
  BY <1>1, <1>2
<1>4. \A p \in Orders, u \in Units \ copied' : Has(p, u)' => Has(p, u)
  BY <1>3, HasGrows, RowsAreHad
<1>5. \A u \in Units \ copied' : \A o1, o2 \in Orders : Has(o1, u)' /\ Has(o2, u)' => o1 = o2
  BY <1>1, <1>4 DEF Kitchen
<1>6. \A u \in Units \ copied', p \in Orders :
        u \in rows'[p] /\ <<p, u>> \notin sent' => cooked'[u] = 0
  BY <1>1, <1>3 DEF Kitchen
<1>7. \A p \in Orders, u \in Units : <<p, u>> \in sent' => u \in rows'[p]
  BY <1>1, <1>2 DEF Kitchen
<1>8. \A p \in Orders, u \in Units : Has(p, u)' => u \in punched'
  <2>1. \A p \in Orders, u \in Units : Has(p, u) => u \in punched
    BY DEF Kitchen
  <2>2. \A p \in Orders, u \in Units : u \in rows'[p] => u \in punched'
    BY <1>1, <1>2, <2>1, RowsAreHad
  <2> QED  BY <1>1, <2>1, <2>2, HasGrows
<1>9. \A u \in Units \ punched' : cooked'[u] = 0
  BY <1>1 DEF Kitchen
<1>10. CookedOnce'
  BY <1>1 DEF CookedOnce
<1> QED  BY <1>5, <1>6, <1>7, <1>8, <1>9, <1>10 DEF Kitchen

(* A line that no ticket carries yet has not been cooked, and it is on one *)
(* order only: the ticket that it is put on now is its first.              *)
LEMMA FireKitchen ==
  ASSUME IInv, Kitchen, CookedOnce, PagesHad, NEW t \in Terminals, FireTickets(t)
  PROVE  Kitchen' /\ CookedOnce'
<1> DEFINE o == work[t]
<1> TypeOK  BY DEF IInv
<1>1. PICK some \in SUBSET Unsent(o) :
        /\ AfterTickets(t, some)
        /\ sent' = sent \cup ({o} \X some)
        /\ cooked' = [u \in Units |-> IF u \in some THEN cooked[u] + 1 ELSE cooked[u]]
  BY DEF FireTickets
<1>2. o \in Orders
  BY <1>1, FireTicketsLocal
<1>3. rows' = rows /\ punched' = punched /\ copied' = copied
  BY DEF FireTickets, itemVars
<1>4. \A u \in some : u \in Units /\ u \in rows[o] /\ <<o, u>> \notin sent
  BY <1>2 DEF Unsent, TypeOK
<1>5. \A u \in Units : cooked[u] \in Nat /\ cooked'[u] = IF u \in some THEN cooked[u] + 1 ELSE cooked[u]
  BY <1>1 DEF TypeOK
<1>6. \A p \in Orders, u \in Units : <<p, u>> \in sent' <=> <<p, u>> \in sent \/ (p = o /\ u \in some)
  BY <1>1
<1>7. \A p \in Orders, u \in Units : <<p, u>> \in sent' => u \in rows'[p]
  BY <1>3, <1>4, <1>6 DEF Kitchen
<1>8. \A u \in Units \ punched' : cooked'[u] = 0
  <2>1. \A u \in some : u \in punched
    BY <1>2, <1>4, RowsAreHad DEF Kitchen
  <2> QED  BY <1>3, <1>5, <2>1 DEF Kitchen
<1>9. \A u \in Units \ copied : \A p \in Orders : u \in rows[o] /\ u \in rows[p] => p = o
  BY <1>2, RowsAreHad DEF Kitchen
<1>10. \A u \in Units \ copied', p \in Orders :
        u \in rows'[p] /\ <<p, u>> \notin sent' => cooked'[u] = 0
  BY <1>2, <1>3, <1>4, <1>5, <1>6, <1>9 DEF Kitchen
<1>11. /\ \A p \in Orders, u \in Units : Has(p, u)' => u \in punched'
       /\ \A u \in Units \ copied' : \A o1, o2 \in Orders : Has(o1, u)' /\ Has(o2, u)' => o1 = o2
  BY <1>3, FewerRows
<1>12. CookedOnce'
  <2>1. \A u \in Units \ copied : u \in some => cooked[u] = 0
    BY <1>2, <1>4 DEF Kitchen
  <2>2. \A u \in Units \ copied : cooked[u] <= 1
    BY DEF CookedOnce
  <2>3. \A u \in Units \ copied : cooked'[u] <= 1
    BY <1>5, <2>1, <2>2
  <2> QED  BY <1>3, <2>3 DEF CookedOnce
<1> QED  BY <1>7, <1>8, <1>10, <1>11, <1>12 DEF Kitchen

LEMMA KitchenInitially == Init => CInv
<1> SUFFICES ASSUME Init  PROVE Kitchen /\ CookedOnce
  BY Initially DEF CInv
<1> QED  BY DEF Init, Kitchen, CookedOnce, Has, Pages

LEMMA KitchenPreserved ==
  CInv /\ [Next]_vars => CInv'
<1> SUFFICES ASSUME CInv, [Next]_vars  PROVE Kitchen' /\ CookedOnce'
  BY Preserved DEF CInv
<1> IInv /\ TypeOK /\ Kitchen /\ CookedOnce  BY DEF CInv, IInv
<1> PagesHad  BY PagesRead
<1>1. ASSUME NEW o \in Orders, Create(o)  PROVE Kitchen' /\ CookedOnce'
  <2>1. UNCHANGED kitchenVars
    BY <1>1 DEF Create
  <2>2. CASE UNCHANGED itemVars
    BY <2>1, <2>2, SameKitchen
  <2>3. ASSUME NEW lines \in SUBSET (Units \ punched), WriteItems(o, lines)
        PROVE  Kitchen' /\ CookedOnce'
    BY <2>1, <2>3, WriteKitchen
  <2> QED  BY <1>1, <2>2, <2>3 DEF Create
<1>2. ASSUME NEW t \in Terminals, Save(t)  PROVE Kitchen' /\ CookedOnce'
  <2> DEFINE o == work[t]
  <2>1. o \in Orders /\ seen[t].units = rows[o]
    BY <1>2 DEF IInv, Terminal, Save, Proceed
  <2>2. PICK cart \in SUBSET (rows[o] \cup (Units \ punched)) : WriteItems(o, cart)
    BY <1>2, <2>1 DEF Save
  <2>3. UNCHANGED kitchenVars
    BY <1>2 DEF Save
  <2> QED  BY <2>1, <2>2, <2>3, WriteKitchen
<1>3. ASSUME NEW t \in Terminals, NEW o \in Orders, AddItems(t, o)  PROVE Kitchen' /\ CookedOnce'
  <2>1. PICK lines \in SUBSET (Units \ punched) : WriteItems(o, rows[o] \cup lines)
    BY <1>3 DEF AddItems
  <2>2. UNCHANGED kitchenVars
    BY <1>3 DEF AddItems
  <2>3. rows[o] \cup lines \in SUBSET (rows[o] \cup (Units \ punched))
    OBVIOUS
  <2> QED  BY <2>1, <2>2, <2>3, WriteKitchen
<1>4. ASSUME NEW o \in Orders, NEW u \in Units, VoidItem(o, u)  PROVE Kitchen' /\ CookedOnce'
  BY <1>4, VoidKitchen
<1>5. ASSUME NEW target \in Orders, NEW source \in Orders, Merge(target, source)
      PROVE  Kitchen' /\ CookedOnce'
  BY <1>5, MergeKitchen
<1>6. ASSUME NEW t \in Terminals, FireTickets(t) \/ RewriteCommit(t)
      PROVE  Kitchen' /\ CookedOnce'
  <2>1. CASE FireTickets(t)
    BY <2>1, FireKitchen
  <2>2. CASE RewriteCommit(t)
    <3>1. work[t] \in Orders
      BY <2>2 DEF IInv, Terminal, RewriteCommit, Finish
    <3> QED  BY <2>2, <3>1, RewriteKitchen
  <2> QED  BY <1>6, <2>1, <2>2
<1>7. ASSUME NEW o \in Orders, Cancel(o) \/ Reopen(o) \/ Settle(o)  PROVE Kitchen' /\ CookedOnce'
  BY <1>7, SameKitchen DEF Cancel, Reopen, Settle
<1>8. ASSUME NEW t \in Terminals, NEW o \in Orders,
             OpenOrder(t, o) \/ StartFire(t, o) \/ BillRead(t, o)
      PROVE  Kitchen' /\ CookedOnce'
  BY <1>8, SameKitchen DEF OpenOrder, StartFire, BillRead
<1>9. ASSUME NEW t \in Terminals,
             \/ OpenItems(t) \/ RewriteRead(t) \/ FireRead(t) \/ FireAdvance(t)
             \/ BillItems(t) \/ BillCommit(t) \/ GiveUp(t)
      PROVE  Kitchen' /\ CookedOnce'
  BY <1>9, SameKitchen
     DEF OpenItems, RewriteRead, FireRead, FireAdvance, BillItems, BillCommit, GiveUp
<1>10. CASE UNCHANGED vars
  BY <1>10, SameKitchen DEF vars
<1> QED  BY <1>1, <1>2, <1>3, <1>4, <1>5, <1>6, <1>7, <1>8, <1>9, <1>10 DEF Next

(* A unit is on one kitchen ticket at most, however many terminals send    *)
(* the order at once, and however the cart is replaced or voided meanwhile *)
(* (pos-orders.service.ts:719-723), unless a merge, or the back office     *)
(* after it was cooked (orders.service.ts:475), wrote it a second row.     *)
THEOREM DispatchedOnce == Spec => []CookedOnce
<1>1. CInv => CookedOnce
  BY DEF CInv
<1> QED  BY <1>1, KitchenInitially, KitchenPreserved, PTL DEF Spec
=============================================================================
